---- MODULE Spec2Model ----
(***************************************************************************)
(* Persistent state store of the interpretive-orchestration plugin:        *)
(* StateManager (state_manager.py) over config.json, used by several       *)
(* independent StateManager instances (one per process) on one project.    *)
(*                                                                         *)
(* The file system is modelled with inodes: a name of the directory refers *)
(* to an inode, an open descriptor refers to an inode, open(..., 'w')      *)
(* truncates the inode the name refers to, os.rename moves an inode from   *)
(* one name to the other, and the modification time of an inode is the     *)
(* clock value of the last write to it.                                    *)
(*                                                                         *)
(* The other parts of the plugin are modelled each with its own variables  *)
(* and its own specification, the variables of the parts it does not       *)
(* touch staying as they start: FileLock / lock_file (file_lock.py) used   *)
(* by the threads of one process; the strain detector (strain_check.py)    *)
(* working on a configuration dict; should_relax, get_current_phase and    *)
(* check_phase (check_phase.py); ReasoningBuffer (reasoning_buffer.py) and *)
(* ConversationLogger (conversation_logger.py), each used by the processes *)
(* that work on one project; the saturation assessor                       *)
(* (saturation_tracker.py) working on a configuration dict.                *)
(***************************************************************************)
EXTENDS Integers, Sequences, FiniteSets, TLC

\* ------------------------------------------------------------------ bounds
MaxTime == 1        \* the clock (datetime.now, st_mtime) takes values 0..MaxTime
MaxVersion == 4     \* no call that saves is made by an instance holding a version >= MaxVersion
BufSize == 4        \* tokens the buffered writer holds before it writes them out
MaxCalls == 3       \* calls made on the project, a crash counting as one more

ProcSeq == <<"p1", "p2">>
Procs == {ProcSeq[i] : i \in 1..Len(ProcSeq)}   \* the StateManager instances, one per process
Ops == {"load", "save", "transition_stage"}
NewStages == {"stage2", "stage3"}   \* the new_stage values transition_stage is called with

\* ------------------------------------------------------- ProjectState
None == -1
NoState == [none |-> TRUE]     \* Python's None where a ProjectState is expected

FieldNames == <<"version", "current_stage", "documents_manually_coded",
                "stage1_complete", "last_updated">>
Fields == {FieldNames[i] : i \in 1..Len(FieldNames)}

\* ProjectState(): the dataclass defaults
ProjectState == [version |-> 1, current_stage |-> "stage1",
                 documents_manually_coded |-> 0, stage1_complete |-> FALSE,
                 last_updated |-> None]

EvidenceThreshold == 10        \* documents manually coded needed for stage2

\* asdict(self): a dict holding every dataclass field and nothing else
to_dict(s) == [k \in Fields |-> s[k]]

\* cls(**data): raises TypeError unless data is a mapping whose keys are all
\* dataclass fields; a field missing from data takes its default
from_dict_raises(data) == data.tag # "dict" \/ ~(DOMAIN data.d \subseteq Fields)
from_dict(data) ==
    [k \in Fields |-> IF k \in DOMAIN data.d THEN data.d[k] ELSE ProjectState[k]]

\* ------------------------------------------------------------ JSON text
\* A text is a sequence of tokens; a key/value pair is one token.
LBRACE == <<"{">>
RBRACE == <<"}">>
LBRACKET == <<"[">>
RBRACKET == <<"]">>
NUL == <<"NUL">>               \* a byte of a hole left by a write past the end

\* json.dump(d, f): "{", the pairs in the order of the keys, "}"
json_dump(d, keys) ==
    <<LBRACE>> \o [i \in 1..Len(keys) |-> <<keys[i], d[keys[i]]>>] \o <<RBRACE>>

IsObjectText(t) ==
    /\ Len(t) >= 2
    /\ t[1] = LBRACE
    /\ t[Len(t)] = RBRACE
    /\ \A i \in 2..(Len(t) - 1) : Len(t[i]) = 2

\* the dict of an object text; of a repeated key the last value stays
ObjectOf(t) ==
    LET idx == 2..(Len(t) - 1)
        keys == {t[i][1] : i \in idx}
        lastOf(k) == CHOOSE i \in idx : t[i][1] = k /\ \A j \in idx : t[j][1] = k => j <= i
    IN [k \in keys |-> t[lastOf(k)][2]]

\* json.load(f): a dict, a list, or JSONDecodeError
json_load(t) ==
    IF IsObjectText(t) THEN [tag |-> "dict", d |-> ObjectOf(t)]
    ELSE IF t = <<LBRACKET, RBRACKET>> THEN [tag |-> "list", d |-> <<>>]
    ELSE [tag |-> "JSONDecodeError", d |-> <<>>]

\* what StateManager writes for a ProjectState
StateText(s) == json_dump(to_dict(s), FieldNames)

\* the ProjectState a text holds, NoState if it holds none
DocOf(t) ==
    LET data == json_load(t)
    IN IF from_dict_raises(data) THEN NoState ELSE from_dict(data)
\* a complete document: every field of ProjectState, nothing torn off
IsComplete(t) == IsObjectText(t) /\ {t[i][1] : i \in 2..(Len(t) - 1)} = Fields
                 /\ Len(t) = Len(FieldNames) + 2

\* the part of a text written out while json.dump runs (the buffer filled up)
\* and the part written out by close()
Chunk1(t) == IF Len(t) > BufSize THEN SubSeq(t, 1, BufSize) ELSE <<>>
Chunk2(t) == IF Len(t) > BufSize THEN SubSeq(t, BufSize + 1, Len(t)) ELSE t

\* write(chunk) at offset off of a file holding content
WriteAt(content, off, chunk) ==
    LET n == IF Len(content) > off + Len(chunk) THEN Len(content) ELSE off + Len(chunk)
    IN [i \in 1..n |-> IF i > off /\ i <= off + Len(chunk) THEN chunk[i - off]
                       ELSE IF i <= Len(content) THEN content[i] ELSE NUL]

\* -------------------------------------------------------------- state
VARIABLES
    now,          \* the clock: datetime.now() and the time stamped on written inodes
    dir,          \* the directory .interpretive-orchestration: name -> inode, 0 if absent
    ino,          \* inode -> [content, mtime]
    lock,         \* inode -> the process holding flock(LOCK_EX) on it, or "none"
    pc,           \* process -> where it is in load / _save_internal
    op,           \* process -> the public method it is running
    arg,          \* process -> new_stage of transition_stage, "-" otherwise
    inload,       \* process -> _save_internal was called by load (lines 87, 118)
    st,           \* process -> the fresh ProjectState() that load is persisting
    fd,           \* process -> inode of its open descriptor on temp_file, 0 if none
    cache,        \* process -> self._cache (the object load returns and save is given)
    cache_mtime,  \* process -> self._cache_mtime
    cur_mtime,    \* process -> the local current_mtime of load
    last,         \* process -> outcome of its last finished call
    quiet,        \* process -> no other process wrote a file since the current call
                  \*            started (for a call that saves: since its save started)
    quietPrev,    \* process -> value of quiet when the load() call it is in started
    fresh,        \* process -> the document its running save was given was the
                  \*            document config.json held when the save started
    calls         \* number of calls made so far

storeVars == <<now, dir, ino, lock, pc, op, arg, inload, st, fd, cache, cache_mtime,
               cur_mtime, last, quiet, quietPrev, fresh, calls>>

\* file_lock.py: the threads of one process, each running
\*     with open(path, ...) as f:
\*         with lock_file(f, exclusive):
\*             <block>
VARIABLES
    HAS_FCNTL,    \* the module's flag: fcntl was imported (native locking)
    tpc,          \* thread -> where it is in the with-statement of lock_file
    exclusive,    \* thread -> FileLock.exclusive
    file_open,    \* thread -> its file object f is open
    flock,        \* thread -> the flock its open file description holds
    self_lock,    \* thread -> FileLock._lock: "None", or the state of the
                  \*           threading.Lock that its FileLock created
    exc,          \* thread -> the exception in flight inside lock_file
    ran,          \* thread -> the guarded block was entered
    ended         \* thread -> how its last with-statement ended

lockVars == <<HAS_FCNTL, tpc, exclusive, file_open, flock, self_lock, exc, ran, ended>>

\* strain_check.py: record_override and record_strain_resolution called on one
\* configuration dict
VARIABLES
    tracking,        \* config['research_design']['strain_tracking'], NoTracking if absent
    rule_overrides,  \* config['research_design']['rule_overrides'] (absent: empty)
    result,          \* the dict the last call returned
    called,          \* the last call: function, rule_id, and phase or resolution
    before,          \* tracking and rule_overrides as they were before the last call
    streak,          \* rule -> the record_override calls made for it in a row in one
                     \*         phase, and whether a resolution was recorded for it since
    nops             \* number of calls made

strainVars == <<tracking, rule_overrides, result, called, before, streak, nops>>

\* check_phase.py: one call of should_relax
VARIABLES
    relaxes_at,      \* the argument relaxes_at
    current_phase,   \* the argument current_phase
    returned,        \* the call has returned
    relaxed          \* what it returned

phaseVars == <<relaxes_at, current_phase, returned, relaxed>>

\* check_phase.py: get_current_phase and check_phase called on one configuration
VARIABLES
    config,          \* the dict check_phase works on from line 131
    got              \* the last call: function, argument and return value

checkVars == <<config, got>>

\* reasoning_buffer.py: ReasoningBuffer instances (one per process) that share
\* the directory .kimi/reasoning of one project
VARIABLES
    second,          \* the clock, in seconds (datetime.now() is read to the second)
    reasoning_dir,   \* the directory: file name -> the lines of the file
    batch_size,      \* instance -> ReasoningBuffer.batch_size
    buffer,          \* instance -> ReasoningBuffer.buffer
    total_flushed,   \* instance -> ReasoningBuffer.total_flushed
    bpc,             \* instance -> where it is: "none" (not constructed), "idle",
                     \*             or the step of flush() it is about to make
    batch_file,      \* instance -> the local batch_file of its flush() in progress
    bcall,           \* instance -> its call in progress or its last call, with the
                     \*             buffer and the directory as they were at the call
    created,         \* the batch files in the order in which they were renamed into
                     \* place, each with the lines it then had
    added,           \* instance -> number of add() calls made
    used             \* number of flush() calls made by callers, and of failures

bufferVars == <<second, reasoning_dir, batch_size, buffer, total_flushed, bpc,
                batch_file, bcall, created, added, used>>

\* conversation_logger.py: ConversationLogger instances (one per process) that
\* log into one project, on a platform with or without fcntl (HAS_FCNTL)
VARIABLES
    log_files,       \* sink ("jsonl", "md") -> the file: whether it exists, its text
    lpc,             \* process -> where it is in log(): the step and the sink
    event_with_ts,   \* process -> the event of its log() call
    pending,         \* process -> the text its file object has buffered
    position,        \* process -> the file position of its descriptor
    file_flock,      \* sink -> the process that holds the flock on the file
    logged,          \* process -> number of log() calls made
    recent           \* the last get_recent_events call: n and what it returned

logVars == <<log_files, lpc, event_with_ts, pending, position, file_flock, logged, recent>>

\* saturation_tracker.py: the functions called on one configuration dict, whose
\* 'saturation_tracking' section holds the dicts below
VARIABLES
    day,                 \* the clock, in days
    code_generation,     \* tracking['code_generation']
    code_coverage,       \* tracking['code_coverage']
    refinement,          \* tracking['refinement']
    redundancy,          \* tracking['redundancy']
    saturation_signals,  \* tracking['saturation_signals']
    sat_result           \* the dict the last call returned, and the day of the call

saturationVars == <<day, code_generation, code_coverage, refinement, redundancy,
                    saturation_signals, sat_result>>

vars == <<storeVars, lockVars, strainVars, phaseVars, checkVars, bufferVars, logVars, saturationVars>>
\* what the methods of StateManager leave alone, what lock_file does, what the
\* strain detector does, what should_relax does
notStore == <<lockVars, strainVars, phaseVars, checkVars, bufferVars, logVars, saturationVars>>
notLock == <<storeVars, strainVars, phaseVars, checkVars, bufferVars, logVars, saturationVars>>
notStrain == <<storeVars, lockVars, phaseVars, checkVars, bufferVars, logVars, saturationVars>>
notPhase == <<storeVars, lockVars, strainVars, checkVars, bufferVars, logVars, saturationVars>>
notCheck == <<storeVars, lockVars, strainVars, phaseVars, bufferVars, logVars, saturationVars>>
notBuffer == <<storeVars, lockVars, strainVars, phaseVars, checkVars, logVars, saturationVars>>
notLog == <<storeVars, lockVars, strainVars, phaseVars, checkVars, bufferVars, saturationVars>>
notSaturation == <<storeVars, lockVars, strainVars, phaseVars, checkVars, bufferVars, logVars>>

Threads == {"t1", "t2"}
\* how a with-statement ended: the exception that reached the caller, the
\* exception in flight when the finally clause ran, whether the block ran
End(raised, cause, r) == [raised |-> raised, cause |-> cause, ran |-> r]
NoEnd == End("-", "-", FALSE)
\* no thread has used lock_file
LockIdle ==
    /\ HAS_FCNTL = TRUE
    /\ tpc = [t \in Threads |-> "out"]
    /\ exclusive = [t \in Threads |-> TRUE]
    /\ file_open = [t \in Threads |-> TRUE]
    /\ flock = [t \in Threads |-> "none"]
    /\ self_lock = [t \in Threads |-> "None"]
    /\ exc = [t \in Threads |-> "none"]
    /\ ran = [t \in Threads |-> FALSE]
    /\ ended = [t \in Threads |-> NoEnd]

\* an empty dict
EmptyDict == [k \in {} |-> 0]
NoTracking == [absent |-> TRUE]
NoResult == [none |-> TRUE]
NoCall == [fn |-> "-", rule_id |-> "-", arg |-> "-"]
NoStreak == [n |-> 0, phase |-> "-", clean |-> TRUE]
\* the rules the plugin knows (the strain prompts, the rules check_phase reports)
ConfiguredRules == {"case-isolation", "wave-isolation", "stream-separation"}
\* the resolution types the plugin names (docstring and --resolution help)
KnownResolutions == {"phase_transition", "adjust_rule"}
\* the arguments the calls are made with
RuleArgs == {"case-isolation", "no-such-rule"}
PhaseArgs == {"phase1_parallel_streams", "phase2_synthesis"}
ResolutionArgs == KnownResolutions \cup {"no-such-type"}
\* a configuration without strain tracking data, no call made
StrainIdle ==
    /\ tracking = NoTracking
    /\ rule_overrides = <<>>
    /\ result = NoResult
    /\ called = NoCall
    /\ before = [tracking |-> NoTracking, rule_overrides |-> <<>>]
    /\ streak = [r \in RuleArgs |-> NoStreak]
    /\ nops = 0

\* should_relax, lines 73-80
phase_order == <<"stage1_foundation", "phase1_parallel_streams", "phase2_synthesis",
                 "phase3_pattern_characterization", "cross_wave_analysis",
                 "stage3_synthesis">>
\* no call of should_relax
PhaseIdle ==
    /\ relaxes_at = "stage1_foundation"
    /\ current_phase = "stage1_foundation"
    /\ returned = FALSE
    /\ relaxed = [raised |-> "none", value |-> FALSE]

\* no call of get_current_phase or check_phase
NoGot == [fn |-> "-"]
CheckIdle ==
    /\ config = EmptyDict
    /\ got = NoGot

\* the ReasoningBuffer instances
Buffers == {"b1", "b2"}
NoName == [ts |-> 0, n |-> 0, tmp |-> FALSE]
NoBCall == [fn |-> "-", status |-> "-"]
\* no ReasoningBuffer constructed, no directory .kimi/reasoning
BufferIdle ==
    /\ second = 0
    /\ reasoning_dir = EmptyDict
    /\ batch_size = [b \in Buffers |-> 0]
    /\ buffer = [b \in Buffers |-> <<>>]
    /\ total_flushed = [b \in Buffers |-> 0]
    /\ bpc = [b \in Buffers |-> "none"]
    /\ batch_file = [b \in Buffers |-> NoName]
    /\ bcall = [b \in Buffers |-> NoBCall]
    /\ created = <<>>
    /\ added = [b \in Buffers |-> 0]
    /\ used = [flushes |-> 0, failures |-> 0]

\* the two sinks of the event log
Sinks == {"jsonl", "md"}
NoFile == [exists |-> FALSE, text |-> <<>>]
AtRest == [step |-> "idle", sink |-> "-"]
NoEvent == [none |-> TRUE]
NoRecent == [n |-> -1]
\* no log written, no ConversationLogger at work
LogIdle ==
    /\ log_files = [s \in Sinks |-> NoFile]
    /\ lpc = [p \in Procs |-> AtRest]
    /\ event_with_ts = [p \in Procs |-> NoEvent]
    /\ pending = [p \in Procs |-> <<>>]
    /\ position = [p \in Procs |-> 0]
    /\ file_flock = [s \in Sinks |-> "none"]
    /\ logged = [p \in Procs |-> 0]
    /\ recent = NoRecent

\* init_saturation_tracking, lines 58-93; rates and scores are in hundredths
NewCodeGeneration ==
    [total_codes |-> 0, codes_by_document |-> <<>>, generation_rate |-> 0,
     stabilized_at_document |-> None]
NewCodeCoverage == [coverage_by_code |-> EmptyDict, rare_codes |-> <<>>, universal_codes |-> <<>>]
NewRefinement ==
    [definition_changes |-> <<>>, changes_last_5_documents |-> 0, split_merge_count |-> 0]
NewRedundancy ==
    [redundancy_score |-> 0, last_assessment |-> None, assessment_notes |-> "",
     threshold |-> 85]
NewSignals ==
    [overall_level |-> "low", last_assessment |-> None, recommendation |-> "",
     evidence |-> EmptyDict]
thresholds ==
    [code_generation_stable |-> 50, refinement_stable |-> 2, redundancy_high |-> 85,
     coverage_adequate |-> 70]
NoSatResult == [fn |-> "-"]
\* a configuration whose saturation tracking has just been initialized
SaturationIdle ==
    /\ day = 0
    /\ code_generation = NewCodeGeneration
    /\ code_coverage = NewCodeCoverage
    /\ refinement = NewRefinement
    /\ redundancy = NewRedundancy
    /\ saturation_signals = NewSignals
    /\ sat_result = NoSatResult

state_file == "cfg"                    \* <config_dir>/config.json
\* (a save that writes config.json in place)
temp_file_in_place == "cfg"
\* f"{self.state_file}.tmp": one name, shared by every instance on the project
temp_file == "tmp"
Names == {state_file, "tmp"}
Inodes == 1..(Cardinality(Procs) + 2)
EmptyInode == [content |-> <<>>, mtime |-> 0]

Referenced(d, f) == ({d[n] : n \in Names} \cup {f[p] : p \in Procs}) \ {0}
FreeInode(d, f) == CHOOSE i \in Inodes : i \notin Referenced(d, f)

\* Inode numbers carry no meaning.  After a step that changes names or
\* descriptors the inodes are renumbered: config.json is 1, the temporary file
\* is 2, an inode only descriptors refer to is 2 + the first process holding
\* it; an inode nothing refers to is gone.
Rank(x, d, f) ==
    IF x = d[state_file] THEN 1
    ELSE IF x = d["tmp"] THEN 2
    ELSE 2 + (CHOOSE i \in 1..Len(ProcSeq) :
                 f[ProcSeq[i]] = x /\ \A j \in 1..Len(ProcSeq) : f[ProcSeq[j]] = x => i <= j)
Source(n, d, f) ==
    IF \E x \in Referenced(d, f) : Rank(x, d, f) = n
    THEN CHOOSE x \in Referenced(d, f) : Rank(x, d, f) = n
    ELSE 0
CanonDir(d, f) == [n \in Names |-> IF d[n] = 0 THEN 0 ELSE Rank(d[n], d, f)]
CanonFd(d, f) == [p \in Procs |-> IF f[p] = 0 THEN 0 ELSE Rank(f[p], d, f)]
CanonIno(d, f, i2) ==
    [n \in Inodes |-> IF Source(n, d, f) = 0 THEN EmptyInode ELSE i2[Source(n, d, f)]]
CanonLock(d, f, l2) ==
    [n \in Inodes |-> IF Source(n, d, f) = 0 THEN "none" ELSE l2[Source(n, d, f)]]
\* the file system after a step left names d, descriptors f, inodes i2, locks l2
Files(d, f, i2, l2) ==
    /\ dir' = CanonDir(d, f)
    /\ fd' = CanonFd(d, f)
    /\ ino' = CanonIno(d, f, i2)
    /\ lock' = CanonLock(d, f, l2)

Exists(n) == dir[n] # 0
Content(n) == ino[dir[n]].content
\* the ProjectState config.json holds now, NoState if it holds none
StoredDoc == IF Exists(state_file) THEN DocOf(Content(state_file)) ELSE NoState

\* the value datetime.now() gives: time may have passed since it was last
\* read.  A write stamps the inode with the coarse clock of the file system,
\* which stands at the value last read.
Clock == {t \in {now, now + 1} : t <= MaxTime}

\* outcome of a call.  kind: "ok", the exception raised, or "crashed"; hit: load
\* served the cache; at: the line that raised; read: what load met in
\* config.json ("dict", "list", "absent", "corrupt"; "-" when it read nothing);
\* fresh: see the variables; after: the call before it.  The document a call
\* returned or saved is the cached object, cache[p].
Res(o, kind, hit, at, rd, fr, af) ==
    [op |-> o, kind |-> kind, hit |-> hit, at |-> at, read |-> rd, fresh |-> fr,
     after |-> af]
NoRes == Res("-", "none", FALSE, "-", "-", FALSE, "-")
\* what a load remembers of the call before it
Digest(r) ==
    IF r.kind = "ok" /\ r.op = "load" THEN "load"
    ELSE IF r.kind = "ok" /\ r.op = "save" /\ r.fresh THEN "save"
    ELSE IF r.kind = "crashed" /\ r.op = "save" /\ r.fresh THEN "crashed"
    ELSE "-"

\* --------------------------------------------- documents config.json starts with
\* a project in stage 1 whose caller set documents_manually_coded and saved
\* (test_state_management)
CodedText == StateText([ProjectState EXCEPT !.version = 2, !.last_updated = 0,
                                            !.documents_manually_coded = 10])
\* after saturation_tracker.save_config added its top-level key
ExtraKeyText == SubSeq(CodedText, 1, Len(CodedText) - 1)
                \o <<<<"saturation_tracking", "sat">>, RBRACE>>
\* content that is JSON but no object, and content that is no JSON
ListText == <<LBRACKET, RBRACKET>>
TruncatedText == SubSeq(CodedText, 1, 2)
InitTexts == {CodedText, ExtraKeyText, ListText, TruncatedText}

Init ==
    /\ now = 0
    /\ \/ /\ dir = [n \in Names |-> 0]
          /\ ino = [i \in Inodes |-> EmptyInode]
       \/ \E t \in InitTexts :
          /\ dir = [n \in Names |-> IF n = state_file THEN 1 ELSE 0]
          /\ ino = [i \in Inodes |-> IF i = 1 THEN [content |-> t, mtime |-> 0]
                                               ELSE EmptyInode]
    /\ lock = [i \in Inodes |-> "none"]
    /\ pc = [p \in Procs |-> "idle"]
    /\ op = [p \in Procs |-> "-"]
    /\ arg = [p \in Procs |-> "-"]
    /\ inload = [p \in Procs |-> FALSE]
    /\ st = [p \in Procs |-> NoState]
    /\ fd = [p \in Procs |-> 0]
    /\ cache = [p \in Procs |-> NoState]
    /\ cache_mtime = [p \in Procs |-> None]
    /\ cur_mtime = [p \in Procs |-> None]
    /\ last = [p \in Procs |-> NoRes]
    /\ quiet = [p \in Procs |-> TRUE]
    /\ quietPrev = [p \in Procs |-> TRUE]
    /\ fresh = [p \in Procs |-> FALSE]
    /\ calls = 0
    /\ LockIdle
    /\ StrainIdle
    /\ PhaseIdle
    /\ CheckIdle
    /\ BufferIdle
    /\ LogIdle
    /\ SaturationIdle

\* ------------------------------------------------ the methods' pure parts
\* (a cache served only when it is newer than the file)
CacheValidStrict(c, cm, m) == c # NoState /\ cm # None /\ cm > m
\* load, lines 94-96: the cached copy is served when it is at least as new as the file
CacheValid(c, cm, m) == c # NoState /\ cm # None /\ cm >= m

\* (a save that counts the version twice)
save_stamp_twice(s, t) == [s EXCEPT !.version = @ + 2, !.last_updated = t]
\* save, lines 148-149 (and _save_internal line 124)
save_stamp(s, t) == [s EXCEPT !.version = @ + 1, !.last_updated = t]

\* transition_stage, lines 160-164
valid_transitions(current) ==
    IF current = "stage1" THEN {"stage2"}
    ELSE IF current = "stage2" THEN {"stage3"}
    ELSE {}

\* transition_stage, lines 169-182: the line that raises ValueError, "none" if none does
TransitionError(s, new_stage) ==
    IF new_stage \notin valid_transitions(s.current_stage) THEN "line170"
    ELSE IF new_stage = "stage2" /\ ~s.stage1_complete
            /\ s.documents_manually_coded < EvidenceThreshold THEN "line179"
    ELSE "none"

\* what a method changes in the object load returned, before it calls save
Mutate(o, a, s) ==
    IF o = "transition_stage"
         THEN [s EXCEPT !.current_stage = a,
                        !.stage1_complete = IF a = "stage2" THEN TRUE ELSE @]
    ELSE s

\* (a save that keeps the stage of the document config.json holds)
WritingMerged(p) ==
    IF inload[p] THEN st[p]
    ELSE IF StoredDoc = NoState THEN cache[p]
    ELSE [cache[p] EXCEPT !.current_stage = StoredDoc.current_stage]
\* the object _save_internal is writing: load's fresh default, or the cached
\* object that the caller of save holds
Writing(p) == IF inload[p] THEN st[p] ELSE cache[p]

\* quiet after a step of q: a step that writes a file ends the quiet of the others
QuietAfter(q, writes, reset) ==
    [r \in Procs |-> IF r = q THEN (reset \/ quiet[r]) ELSE (quiet[r] /\ ~writes)]

\* the call of p ends with outcome r
Finish(p, r) ==
    /\ pc' = [pc EXCEPT ![p] = "idle"]
    /\ op' = [op EXCEPT ![p] = "-"]
    /\ arg' = [arg EXCEPT ![p] = "-"]
    /\ st' = [st EXCEPT ![p] = NoState]
    /\ inload' = [inload EXCEPT ![p] = FALSE]
    /\ fresh' = [fresh EXCEPT ![p] = FALSE]
    /\ quietPrev' = [quietPrev EXCEPT ![p] = TRUE]
    /\ last' = [last EXCEPT ![p] = r]

\* (a transition_stage that marks stage 1 complete before it checks the evidence)
StateAtRaiseMarked(s, new_stage) ==
    IF new_stage = "stage2" THEN [s EXCEPT !.stage1_complete = TRUE] ELSE s
\* transition_stage, lines 166-182: the object load returned as it is when
\* ValueError is raised; the assignments of lines 183 and 185 come after
StateAtRaise(s, new_stage) == s

\* load has returned s inside method o: a load returns it, a transition_stage
\* that fails its checks raises, every other method changes s and enters save
Continue(p, o, a, s, hit, af, atCall) ==
    LET err == IF o = "transition_stage" THEN TransitionError(s, a) ELSE "none"
    IN IF o = "load" \/ err # "none"
       THEN /\ Finish(p, IF o = "load" THEN Res(o, "ok", hit, "return", "-", FALSE, af)
                                        ELSE Res(o, "ValueError", FALSE, err, "-", FALSE, "-"))
            /\ cache' = [cache EXCEPT ![p] = IF o = "load" THEN s ELSE StateAtRaise(s, a)]
            /\ quiet' = QuietAfter(p, FALSE, atCall)
            /\ now' = now
       ELSE /\ \E t \in Clock :
                 /\ now' = t
                 /\ cache' = [cache EXCEPT ![p] = save_stamp(Mutate(o, a, s), t)]
            /\ pc' = [pc EXCEPT ![p] = "s_open"]
            /\ op' = [op EXCEPT ![p] = o]
            /\ arg' = [arg EXCEPT ![p] = a]
            /\ st' = [st EXCEPT ![p] = NoState]
            /\ inload' = [inload EXCEPT ![p] = FALSE]
            /\ fresh' = [fresh EXCEPT ![p] = (s = StoredDoc)]
            /\ quiet' = QuietAfter(p, FALSE, TRUE)
            /\ UNCHANGED <<last, quietPrev>>

\* load enters _save_internal with a fresh ProjectState(): the file is absent
\* (lines 85-87) or its content is corrupt (lines 116-118)
Recover(p, o, a) ==
    /\ \E t \in Clock :
          /\ now' = t
          /\ st' = [st EXCEPT ![p] = [ProjectState EXCEPT !.last_updated = t]]
    /\ inload' = [inload EXCEPT ![p] = TRUE]
    /\ pc' = [pc EXCEPT ![p] = "s_open"]
    /\ op' = [op EXCEPT ![p] = o]
    /\ arg' = [arg EXCEPT ![p] = a]
    /\ UNCHANGED <<cache, last, fresh>>

\* a call raises: the exception leaves the method
Raise(p, kind, at, rd) ==
    /\ Finish(p, Res(op[p], kind, FALSE, at, rd, fresh[p], "-"))
    /\ UNCHANGED <<cache, now>>

\* the document a call is expected to work on, for the bounds
Basis(p) == IF cache[p] # NoState THEN cache[p] ELSE StoredDoc
Below(s, o) ==
    IF s = NoState \/ o = "load" THEN TRUE
    ELSE s.version < MaxVersion

\* the call before the load p is in, if no other process wrote a file since
\* that call started (q: the value quiet[p] had when the load started)
Before(p, q) == IF q THEN Digest(last[p]) ELSE "-"

\* the instance has been used
Started(q) == pc[q] # "idle" \/ last[q] # NoRes
\* instances are named in the order of their first calls
InOrder(p) ==
    \A i \in 2..Len(ProcSeq) : p = ProcSeq[i] => Started(ProcSeq[i - 1])

\* ------------------------------------------------------------- actions
\* A public method is called.  save(state) is called on the object an earlier
\* load returned; every other method starts with load(), lines 83-97.
Call(p, o, a) ==
    /\ pc[p] = "idle"
    /\ UNCHANGED notStore
    /\ InOrder(p)
    /\ (o = "transition_stage") = (a \in NewStages)
    /\ Below(Basis(p), o)
    /\ calls < MaxCalls
    /\ calls' = calls + 1
    /\ UNCHANGED <<dir, ino, lock, fd, cache_mtime>>
    /\ IF o = "save"
       THEN /\ cache[p] # NoState
            /\ Continue(p, o, a, cache[p], FALSE, "-", TRUE)
            /\ UNCHANGED cur_mtime
       ELSE IF ~Exists(state_file)
       THEN /\ Recover(p, o, a)
            /\ quiet' = QuietAfter(p, FALSE, TRUE)
            /\ quietPrev' = [quietPrev EXCEPT ![p] = (o = "load") => quiet[p]]
            /\ UNCHANGED cur_mtime
       ELSE IF CacheValid(cache[p], cache_mtime[p], ino[dir[state_file]].mtime)
       THEN /\ Continue(p, o, a, cache[p], TRUE, Before(p, quiet[p]), TRUE)
            /\ UNCHANGED cur_mtime
       ELSE /\ cur_mtime' = [cur_mtime EXCEPT ![p] = ino[dir[state_file]].mtime]
            /\ quietPrev' = [quietPrev EXCEPT ![p] = (o = "load") => quiet[p]]
            /\ pc' = [pc EXCEPT ![p] = "l_read"]
            /\ op' = [op EXCEPT ![p] = o]
            /\ arg' = [arg EXCEPT ![p] = a]
            /\ quiet' = QuietAfter(p, FALSE, TRUE)
            /\ UNCHANGED <<now, cache, st, inload, last, fresh>>

\* load, lines 102-120: read config.json under a shared lock and parse it
Read(p) ==
    /\ pc[p] = "l_read"
    /\ UNCHANGED notStore
    /\ Exists(state_file) => lock[dir[state_file]] = "none"
    /\ cur_mtime' = [cur_mtime EXCEPT ![p] = None]
    /\ UNCHANGED <<dir, ino, lock, fd, calls>>
    /\ LET data == IF Exists(state_file) THEN json_load(Content(state_file))
                   ELSE [tag |-> "IOError", d |-> <<>>]
       IN IF data.tag \in {"JSONDecodeError", "IOError"}
          THEN /\ Recover(p, op[p], arg[p])
               /\ UNCHANGED <<cache_mtime, quiet, quietPrev>>
          ELSE IF from_dict_raises(data)
          THEN /\ Raise(p, "TypeError", "line108", data.tag)
               /\ UNCHANGED <<cache_mtime, quiet>>
          ELSE /\ cache_mtime' = [cache_mtime EXCEPT ![p] = cur_mtime[p]]
               /\ Continue(p, op[p], arg[p], from_dict(data), FALSE,
                           Before(p, quietPrev[p]), FALSE)

\* _save_internal, line 128: open(temp_file, 'w') creates the file, or truncates
\* the inode the name refers to, whoever else has it open
Open(p) ==
    /\ pc[p] = "s_open"
    /\ UNCHANGED notStore
    /\ LET i == IF Exists(temp_file) THEN dir[temp_file] ELSE FreeInode(dir, fd)
       IN Files([dir EXCEPT ![temp_file] = i], [fd EXCEPT ![p] = i],
                [ino EXCEPT ![i] = [content |-> <<>>, mtime |-> now]], lock)
    /\ pc' = [pc EXCEPT ![p] = "s_lock"]
    /\ quiet' = QuietAfter(p, TRUE, FALSE)
    /\ UNCHANGED <<now, calls, op, arg, inload, st, cache, cache_mtime, cur_mtime,
                   last, quietPrev, fresh>>

\* lines 130-131: flock(LOCK_EX) on the descriptor, then json.dump: what
\* overflows the buffer is written out at the start of the file
Dump(p) ==
    /\ pc[p] = "s_lock"
    /\ UNCHANGED notStore
    /\ lock[fd[p]] = "none"
    /\ lock' = [lock EXCEPT ![fd[p]] = p]
    /\ LET c == Chunk1(StateText(Writing(p)))
       IN IF c = <<>> THEN UNCHANGED ino
          ELSE ino' = [ino EXCEPT ![fd[p]] =
                          [content |-> WriteAt(ino[fd[p]].content, 0, c), mtime |-> now]]
    /\ pc' = [pc EXCEPT ![p] = "s_close"]
    /\ quiet' = QuietAfter(p, TRUE, FALSE)
    /\ UNCHANGED <<now, dir, op, arg, inload, st, fd, cache, cache_mtime, cur_mtime,
                   last, quietPrev, fresh, calls>>

\* the two with-blocks end: flock(LOCK_UN), then close() writes the rest of the
\* buffer where the descriptor stands
Close(p) ==
    /\ pc[p] = "s_close"
    /\ UNCHANGED notStore
    /\ LET x == StateText(Writing(p))
           i == fd[p]
           i2 == [ino EXCEPT ![i] =
                     [content |-> WriteAt(ino[i].content, Len(Chunk1(x)), Chunk2(x)),
                      mtime |-> now]]
       IN Files(dir, [fd EXCEPT ![p] = 0], i2, [lock EXCEPT ![i] = "none"])
    /\ pc' = [pc EXCEPT ![p] = "s_rename"]
    /\ quiet' = QuietAfter(p, TRUE, FALSE)
    /\ UNCHANGED <<now, calls, op, arg, inload, st, cache, cache_mtime, cur_mtime,
                   last, quietPrev, fresh>>

\* line 134: os.rename(temp_file, self.state_file); FileNotFoundError if the
\* name temp_file is gone
Rename(p) ==
    /\ pc[p] = "s_rename"
    /\ UNCHANGED notStore
    /\ UNCHANGED <<cache_mtime, cur_mtime, calls>>
    /\ IF ~Exists(temp_file)
       THEN /\ Raise(p, "FileNotFoundError", "line134", "-")
            /\ UNCHANGED <<dir, ino, lock, fd, quiet>>
       ELSE /\ LET d2 == IF temp_file = state_file THEN dir
                         ELSE [dir EXCEPT ![state_file] = dir[temp_file],
                                          ![temp_file] = 0]
               IN Files(d2, fd, ino, lock)
            /\ pc' = [pc EXCEPT ![p] = "s_stat"]
            /\ quiet' = QuietAfter(p, TRUE, FALSE)
            /\ UNCHANGED <<now, op, arg, inload, st, cache, last, fresh, quietPrev>>

\* lines 137-138: the cache takes the written object and the time the file
\* has now; then save returns True, or load (lines 88-89, 119-120) returns
Stat(p) ==
    /\ pc[p] = "s_stat"
    /\ UNCHANGED notStore
    /\ cache_mtime' = [cache_mtime EXCEPT ![p] = ino[dir[state_file]].mtime]
    /\ UNCHANGED <<dir, ino, lock, fd, cur_mtime, calls>>
    /\ IF inload[p]
       THEN Continue(p, op[p], arg[p], st[p], FALSE, "-", FALSE)
       ELSE /\ Finish(p, Res(op[p], "ok", FALSE, "return", "-", fresh[p], "-"))
            /\ UNCHANGED <<now, cache, quiet>>

\* the process stops inside _save_internal, between opening the temporary file
\* and the rename: its descriptor is closed with the buffer unwritten, its lock
\* is dropped, the instance is gone; its next call comes from a new instance
Crash(p) ==
    /\ pc[p] \in {"s_lock", "s_close", "s_rename"}
    /\ UNCHANGED notStore
    /\ calls < MaxCalls
    /\ calls' = calls + 1
    /\ Files(dir, [fd EXCEPT ![p] = 0], ino,
             [i \in Inodes |-> IF lock[i] = p THEN "none" ELSE lock[i]])
    /\ Finish(p, Res(IF inload[p] THEN "load" ELSE "save", "crashed", FALSE,
                     "-", "-", fresh[p], "-"))
    /\ cache' = [cache EXCEPT ![p] = NoState]
    /\ cache_mtime' = [cache_mtime EXCEPT ![p] = None]
    /\ UNCHANGED <<now, cur_mtime, quiet>>

Next ==
    \/ \E p \in Procs, o \in Ops, a \in NewStages \cup {"-"} : Call(p, o, a)
    \/ \E p \in Procs : Read(p)
    \/ \E p \in Procs : Open(p)
    \/ \E p \in Procs : Dump(p)
    \/ \E p \in Procs : Close(p)
    \/ \E p \in Procs : Rename(p)
    \/ \E p \in Procs : Stat(p)
    \/ \E p \in Procs : Crash(p)

Spec == Init /\ [][Next]_vars

\* ------------------------------------------ one instance whose writes can fail
\* _save_internal, line 128: open(temp_file, 'w') raises OSError (the name is a
\* directory, the disk is full, the directory is read-only); nothing was
\* written, and the exception leaves save, or the load that was persisting a
\* fresh ProjectState
OpenFails(p) ==
    /\ pc[p] = "s_open"
    /\ UNCHANGED notStore
    /\ Finish(p, Res(IF inload[p] THEN "load" ELSE op[p], "OSError", FALSE,
                     "line128", "-", fresh[p], "-"))
    /\ UNCHANGED <<now, dir, ino, lock, fd, cache, cache_mtime, cur_mtime, quiet, calls>>

NextFail ==
    \/ \E o \in Ops, a \in NewStages \cup {"-"} : Call(ProcSeq[1], o, a)
    \/ Read(ProcSeq[1])
    \/ Open(ProcSeq[1])
    \/ OpenFails(ProcSeq[1])
    \/ Dump(ProcSeq[1])
    \/ Close(ProcSeq[1])
    \/ Rename(ProcSeq[1])
    \/ Stat(ProcSeq[1])

SpecFail == Init /\ [][NextFail]_vars

\* ------------------------------------- a project whose caller edits the document
\* The object load() returns is the caller's: test_state_management (lines
\* 80-82) sets documents_manually_coded and saves, test_end_to_end (lines
\* 112-115) and defensive_router (lines 244-247) set stage1_complete and save.
\* a stage 1 project one document short of the evidence
EarlyText == StateText([ProjectState EXCEPT !.version = 2, !.last_updated = 0,
                                            !.documents_manually_coded = EvidenceThreshold - 1])
\* the same project after its caller marked stage 1 complete
MarkedText == StateText([ProjectState EXCEPT !.version = 2, !.last_updated = 0,
                                             !.documents_manually_coded = EvidenceThreshold - 1,
                                             !.stage1_complete = TRUE])
StageTexts == {EarlyText, MarkedText}

InitStage ==
    /\ now = 0
    /\ \E t \in StageTexts :
          /\ dir = [n \in Names |-> IF n = state_file THEN 1 ELSE 0]
          /\ ino = [i \in Inodes |-> IF i = 1 THEN [content |-> t, mtime |-> 0]
                                               ELSE EmptyInode]
    /\ lock = [i \in Inodes |-> "none"]
    /\ pc = [p \in Procs |-> "idle"]
    /\ op = [p \in Procs |-> "-"]
    /\ arg = [p \in Procs |-> "-"]
    /\ inload = [p \in Procs |-> FALSE]
    /\ st = [p \in Procs |-> NoState]
    /\ fd = [p \in Procs |-> 0]
    /\ cache = [p \in Procs |-> NoState]
    /\ cache_mtime = [p \in Procs |-> None]
    /\ cur_mtime = [p \in Procs |-> None]
    /\ last = [p \in Procs |-> NoRes]
    /\ quiet = [p \in Procs |-> TRUE]
    /\ quietPrev = [p \in Procs |-> TRUE]
    /\ fresh = [p \in Procs |-> FALSE]
    /\ calls = 0
    /\ LockIdle
    /\ StrainIdle
    /\ PhaseIdle
    /\ CheckIdle
    /\ BufferIdle
    /\ LogIdle
    /\ SaturationIdle

SpecStage == InitStage /\ [][Next]_vars

\* ------------------------------------------------- FileLock and lock_file
\* StateManager and its files at rest: no instance has been used
StoreIdle ==
    /\ now = 0
    /\ dir = [n \in Names |-> 0]
    /\ ino = [i \in Inodes |-> EmptyInode]
    /\ lock = [i \in Inodes |-> "none"]
    /\ pc = [p \in Procs |-> "idle"]
    /\ op = [p \in Procs |-> "-"]
    /\ arg = [p \in Procs |-> "-"]
    /\ inload = [p \in Procs |-> FALSE]
    /\ st = [p \in Procs |-> NoState]
    /\ fd = [p \in Procs |-> 0]
    /\ cache = [p \in Procs |-> NoState]
    /\ cache_mtime = [p \in Procs |-> None]
    /\ cur_mtime = [p \in Procs |-> None]
    /\ last = [p \in Procs |-> NoRes]
    /\ quiet = [p \in Procs |-> TRUE]
    /\ quietPrev = [p \in Procs |-> TRUE]
    /\ fresh = [p \in Procs |-> FALSE]
    /\ calls = 0

\* the platform has fcntl or it has no native locking (fallback mode); the
\* Windows branch is the fcntl branch with LockFileEx for flock
InitLock ==
    /\ StoreIdle
    /\ HAS_FCNTL \in BOOLEAN
    /\ tpc = [t \in Threads |-> "out"]
    /\ exclusive = [t \in Threads |-> TRUE]
    /\ file_open = [t \in Threads |-> TRUE]
    /\ flock = [t \in Threads |-> "none"]
    /\ self_lock = [t \in Threads |-> "None"]
    /\ exc = [t \in Threads |-> "none"]
    /\ ran = [t \in Threads |-> FALSE]
    /\ ended = [t \in Threads |-> NoEnd]
    /\ StrainIdle
    /\ PhaseIdle
    /\ CheckIdle
    /\ BufferIdle
    /\ LogIdle
    /\ SaturationIdle

\* __enter__, line 62
operation(ex) == IF ex THEN "LOCK_EX" ELSE "LOCK_SH"
\* fcntl.flock(fd, operation) returns: no other open file description holds a
\* lock that conflicts; until then the call blocks
Granted(t, o) ==
    \A u \in Threads \ {t} :
       IF o = "LOCK_EX" THEN flock[u] = "none" ELSE flock[u] # "LOCK_EX"

\* (a lock_file that releases only when the block returns)
FinallyOnReturn(e) == IF e = "none" THEN "exit" ELSE "out"
\* lock_file, lines 126-130: where control goes when the try body is left with
\* exception e in flight ("none": the block returned): the finally clause
Finally(e) == "exit"

\* the with-statement is entered: lock_file constructs FileLock(file_obj,
\* exclusive) (line 125, __init__ lines 54-56) on the file the thread opened,
\* or on a file object that is closed
With(t, ex, opened) ==
    /\ tpc[t] = "out"
    /\ tpc' = [tpc EXCEPT ![t] = "enter"]
    /\ exclusive' = [exclusive EXCEPT ![t] = ex]
    /\ file_open' = [file_open EXCEPT ![t] = opened]
    /\ flock' = [flock EXCEPT ![t] = "none"]
    /\ self_lock' = [self_lock EXCEPT ![t] = "None"]
    /\ exc' = [exc EXCEPT ![t] = "none"]
    /\ ran' = [ran EXCEPT ![t] = FALSE]
    /\ ended' = [ended EXCEPT ![t] = NoEnd]
    /\ UNCHANGED <<HAS_FCNTL, notLock>>

\* the with-statement ends, e reaching the caller
Ends_with(t, e, cause) ==
    /\ tpc' = [tpc EXCEPT ![t] = "out"]
    /\ ended' = [ended EXCEPT ![t] = End(e, cause, ran'[t])]
    /\ exc' = [exc EXCEPT ![t] = "none"]

\* the try body of lock_file is left with e in flight
Leave(t, e) ==
    IF Finally(e) = "exit"
    THEN /\ tpc' = [tpc EXCEPT ![t] = "exit"]
         /\ exc' = [exc EXCEPT ![t] = e]
         /\ UNCHANGED ended
    ELSE Ends_with(t, e, e)

\* FileLock.__enter__, lines 58-87
Enter(t) ==
    /\ tpc[t] = "enter"
    /\ UNCHANGED <<HAS_FCNTL, exclusive, file_open, ran, notLock>>
    /\ IF HAS_FCNTL
       THEN IF ~file_open[t]
            THEN \* self.file_obj.fileno() raises ValueError
                 /\ Leave(t, "ValueError")
                 /\ UNCHANGED <<flock, self_lock>>
            ELSE /\ Granted(t, operation(exclusive[t]))
                 /\ flock' = [flock EXCEPT ![t] = operation(exclusive[t])]
                 /\ tpc' = [tpc EXCEPT ![t] = "block"]
                 /\ UNCHANGED <<self_lock, exc, ended>>
       ELSE \* self._lock = threading.Lock(); self._lock.acquire(): a lock no
            \* other FileLock refers to, so the acquire returns at once
            /\ self_lock' = [self_lock EXCEPT ![t] = "locked"]
            /\ tpc' = [tpc EXCEPT ![t] = "block"]
            /\ UNCHANGED <<flock, exc, ended>>

\* the guarded block runs and returns or raises
Block(t, raises) ==
    /\ tpc[t] = "block"
    /\ ran' = [ran EXCEPT ![t] = TRUE]
    /\ Leave(t, IF raises THEN "BlockError" ELSE "none")
    /\ UNCHANGED <<HAS_FCNTL, exclusive, file_open, flock, self_lock, notLock>>

\* the finally clause: FileLock.__exit__, lines 89-105; an exception it raises
\* takes the place of the one in flight
Exit(t) ==
    /\ tpc[t] = "exit"
    /\ UNCHANGED <<HAS_FCNTL, exclusive, file_open, ran, notLock>>
    /\ IF HAS_FCNTL
       THEN IF ~file_open[t]
            THEN /\ Ends_with(t, "ValueError", exc[t])
                 /\ UNCHANGED <<flock, self_lock>>
            ELSE /\ flock' = [flock EXCEPT ![t] = "none"]
                 /\ Ends_with(t, exc[t], exc[t])
                 /\ UNCHANGED self_lock
       ELSE /\ self_lock' = [self_lock EXCEPT ![t] =
                                IF @ # "None" THEN "unlocked" ELSE @]
            /\ Ends_with(t, exc[t], exc[t])
            /\ UNCHANGED flock

NextLock ==
    \/ \E t \in Threads, ex \in BOOLEAN, opened \in BOOLEAN : With(t, ex, opened)
    \/ \E t \in Threads : Enter(t)
    \/ \E t \in Threads, raises \in BOOLEAN : Block(t, raises)
    \/ \E t \in Threads : Exit(t)

SpecLock == InitLock /\ [][NextLock]_vars

\* ------------------------------------------ strain_check.py: the strain detector
MaxOps == 5          \* calls of record_override and record_strain_resolution made

DefaultThreshold == 3
\* record_override, lines 179-185: the strain tracking data of a new project
NewTracking == [override_counts |-> EmptyDict, strain_threshold |-> DefaultThreshold,
                strained_rules |-> <<>>, strain_reviews |-> <<>>]
\* lines 191-196: the counter of a rule overridden for the first time
NewCount(phase) == [count |-> 0, last_override |-> "None", phase_when_overridden |-> phase]
\* d[k] = v
SetItem(d, k, v) == [x \in DOMAIN d \cup {k} |-> IF x = k THEN v ELSE d[x]]
\* x in l, and l.remove(x): the first occurrence goes
In(x, l) == \E i \in 1..Len(l) : l[i] = x
Remove(l, x) ==
    LET i == CHOOSE j \in 1..Len(l) : l[j] = x /\ \A k \in 1..(j - 1) : l[k] # x
    IN SubSeq(l, 1, i - 1) \o SubSeq(l, i + 1, Len(l))

\* (a counter that keeps its count when the phase changes)
phase_kept(rc, phase) == [rc EXCEPT !.phase_when_overridden = phase]
\* lines 201-203: the count starts again when the phase changed
phase_reset(rc, phase) ==
    IF rc.phase_when_overridden # phase
    THEN [rc EXCEPT !.count = 0, !.phase_when_overridden = phase]
    ELSE rc

\* (a flag raised by every override at or over the threshold)
first_time_strained_over(count, threshold) == count >= threshold
\* line 234: is_strained and rule_count['count'] == threshold
first_time_strained(count, threshold) == count >= threshold /\ count = threshold

\* (a resolution of any type sets the count to 0)
resets_count_always(resolution) == TRUE
\* line 332: the resolution types that set the count to 0
resets_count(resolution) == resolution = "phase_transition"

\* the ghost streak of a rule after a record_override in phase
StreakAfter(s, phase) ==
    IF s.phase = phase THEN [s EXCEPT !.n = @ + 1]
    ELSE [n |-> 1, phase |-> phase, clean |-> TRUE]

\* record_override(config, rule_id, justification, current_phase), lines 175-235
record_override(rule_id, phase) ==
    LET tr == IF tracking = NoTracking THEN NewTracking ELSE tracking
        oc == tr.override_counts
        rc0 == IF rule_id \in DOMAIN oc THEN oc[rule_id] ELSE NewCount(phase)
        rc1 == phase_reset(rc0, phase)
        rc2 == [rc1 EXCEPT !.count = @ + 1, !.last_override = "now"]
        threshold == tr.strain_threshold
        is_strained == rc2.count >= threshold
        strained == IF is_strained /\ ~In(rule_id, tr.strained_rules)
                    THEN Append(tr.strained_rules, rule_id)
                    ELSE tr.strained_rules
    IN /\ nops < MaxOps
       /\ nops' = nops + 1
       /\ called' = [fn |-> "record_override", rule_id |-> rule_id, arg |-> phase]
       /\ before' = [tracking |-> tracking, rule_overrides |-> rule_overrides]
       /\ tracking' = [tr EXCEPT !.override_counts = SetItem(oc, rule_id, rc2),
                                 !.strained_rules = strained]
       /\ rule_overrides' = Append(rule_overrides,
                                   [rule_id |-> rule_id, outcome |-> "pending"])
       /\ result' = [rule_id |-> rule_id, override_count |-> rc2.count,
                     threshold |-> threshold, is_strained |-> is_strained,
                     phase |-> phase,
                     first_time_strained |-> first_time_strained(rc2.count, threshold)]
       /\ streak' = [streak EXCEPT ![rule_id] = StreakAfter(@, phase)]
       /\ UNCHANGED notStrain

\* record_strain_resolution(config, rule_id, resolution, notes), lines 317-344
record_strain_resolution(rule_id, resolution) ==
    /\ nops < MaxOps
    /\ nops' = nops + 1
    /\ called' = [fn |-> "record_strain_resolution", rule_id |-> rule_id,
                  arg |-> resolution]
    /\ before' = [tracking |-> tracking, rule_overrides |-> rule_overrides]
    /\ streak' = [streak EXCEPT ![rule_id].clean = FALSE]
    /\ UNCHANGED <<rule_overrides, notStrain>>
    /\ IF tracking = NoTracking
       THEN /\ result' = [success |-> FALSE, error |-> "No strain tracking data"]
            /\ UNCHANGED tracking
       ELSE LET oc == tracking.override_counts
                review == [rule_id |-> rule_id,
                           override_count |-> IF rule_id \in DOMAIN oc
                                              THEN oc[rule_id].count ELSE 0,
                           resolution |-> resolution]
                oc2 == IF resets_count(resolution) /\ rule_id \in DOMAIN oc
                       THEN [oc EXCEPT ![rule_id].count = 0]
                       ELSE oc
                strained == IF In(rule_id, tracking.strained_rules)
                            THEN Remove(tracking.strained_rules, rule_id)
                            ELSE tracking.strained_rules
            IN /\ tracking' = [tracking EXCEPT
                                  !.strain_reviews = Append(@, review),
                                  !.override_counts = oc2,
                                  !.strained_rules = strained]
               /\ result' = [success |-> TRUE, resolution |-> resolution,
                             rule_id |-> rule_id]

\* check_strain(config), lines 259-296, with no rule_id: the rule ids of the
\* strained_rules it returns, which it derives from the counts
check_strain(tr) ==
    IF tr = NoTracking THEN {}
    ELSE {rid \in DOMAIN tr.override_counts :
             tr.override_counts[rid].count >= tr.strain_threshold}

InitStrain ==
    /\ StoreIdle
    /\ LockIdle
    /\ StrainIdle
    /\ PhaseIdle
    /\ CheckIdle
    /\ BufferIdle
    /\ LogIdle
    /\ SaturationIdle

NextStrain ==
    \/ \E r \in RuleArgs, ph \in PhaseArgs : record_override(r, ph)
    \/ \E r \in RuleArgs, res \in ResolutionArgs : record_strain_resolution(r, res)

SpecStrain == InitStrain /\ [][NextStrain]_vars

\* ------------------------------------------------- check_phase.py: should_relax
\* the names should_relax is called with: the phases, and names that are none
NameArgs == {phase_order[i] : i \in 1..Len(phase_order)} \cup {"not_a_phase", "None"}

\* list.index(x): the position of the first x, or ValueError
index(l, x) ==
    IF \E i \in 1..Len(l) : l[i] = x
    THEN [raised |-> "none",
          value |-> (CHOOSE i \in 1..Len(l) : l[i] = x /\ \A j \in 1..(i - 1) : l[j] # x) - 1]
    ELSE [raised |-> "ValueError", value |-> 0]

\* (a rule that relaxes only after the phase it names)
should_relax_after(ra, cp) ==
    LET current_index == index(phase_order, cp)
        relax_index == index(phase_order, ra)
    IN IF current_index.raised # "none" \/ relax_index.raised # "none"
       THEN [raised |-> "none", value |-> FALSE]
       ELSE [raised |-> "none", value |-> current_index.value > relax_index.value]
\* should_relax(relaxes_at, current_phase), lines 82-87
should_relax(ra, cp) ==
    LET current_index == index(phase_order, cp)
        relax_index == index(phase_order, ra)
    IN IF current_index.raised # "none" \/ relax_index.raised # "none"
       THEN [raised |-> "none", value |-> FALSE]
       ELSE [raised |-> "none", value |-> current_index.value >= relax_index.value]

InitPhase ==
    /\ StoreIdle
    /\ LockIdle
    /\ StrainIdle
    /\ CheckIdle
    /\ BufferIdle
    /\ LogIdle
    /\ SaturationIdle
    /\ relaxes_at \in NameArgs
    /\ current_phase \in NameArgs
    /\ returned = FALSE
    /\ relaxed = [raised |-> "none", value |-> FALSE]

ShouldRelax ==
    /\ ~returned
    /\ returned' = TRUE
    /\ relaxed' = should_relax(relaxes_at, current_phase)
    /\ UNCHANGED <<relaxes_at, current_phase, notPhase>>

NextPhase == ShouldRelax

SpecPhase == InitPhase /\ [][NextPhase]_vars

\* ------------------------- check_phase.py: get_current_phase and check_phase
\* dict.get(k, default)
Get(d, k, default) == IF k \in DOMAIN d THEN d[k] ELSE default
\* the argument None of get_current_phase
NoStatus == [None |-> TRUE]
\* sandwich_status['stage2_progress']
ProgressArgs ==
    { EmptyDict,
      [phase2_synthesis |-> "in_progress"],
      [phase2_synthesis |-> "complete", phase3_pattern_characterization |-> "not_started"],
      [phase2_synthesis |-> "complete", phase3_pattern_characterization |-> "in_progress"],
      [phase3_pattern_characterization |-> "complete"] }
\* the sandwich_status sections: empty, without current_stage, with a stage
\* get_current_phase names, with another stage ("stage2" is what StateManager
\* writes as current_stage, "None" is JSON null)
StatusDicts ==
    {EmptyDict, [stage2_progress |-> EmptyDict]}
    \cup {[current_stage |-> s] :
            s \in {"stage1_foundation", "stage2_collaboration", "stage3_synthesis",
                   "cross_wave_analysis", "stage2", "None"}}
    \cup {[current_stage |-> "stage2_collaboration", stage2_progress |-> p] :
            p \in ProgressArgs}
    \cup {[current_stage |-> "stage1_foundation",
           stage2_progress |-> [phase2_synthesis |-> "complete"]]}
StatusArgs == {NoStatus} \cup StatusDicts

\* get_current_phase(sandwich_status), lines 40-59
get_current_phase(sandwich_status) ==
    IF sandwich_status = NoStatus \/ DOMAIN sandwich_status = {}
    THEN "stage1_foundation"
    ELSE LET stage == Get(sandwich_status, "current_stage", "stage1_foundation")
         IN IF stage = "stage1_foundation" THEN "stage1_foundation"
            ELSE IF stage = "stage2_collaboration"
            THEN LET progress == Get(sandwich_status, "stage2_progress", EmptyDict)
                 IN IF Get(progress, "phase3_pattern_characterization", "None")
                          \in {"in_progress", "complete"}
                    THEN "phase3_pattern_characterization"
                    ELSE IF Get(progress, "phase2_synthesis", "None")
                               \in {"in_progress", "complete"}
                    THEN "phase2_synthesis"
                    ELSE "phase1_parallel_streams"
            ELSE IF stage = "stage3_synthesis" THEN "stage3_synthesis"
            ELSE stage

\* the three rules check_phase reports: name, key in isolation_config, the
\* list of research_design that must not be empty (stream separation: none),
\* and the default of relaxes_at (lines 153-154, 162-163, 171-172)
IsolationRules ==
    << [name |-> "case-isolation", key |-> "case_isolation", list |-> "cases",
        default |-> "phase3_pattern_characterization"],
       [name |-> "wave-isolation", key |-> "wave_isolation", list |-> "waves",
        default |-> "cross_wave_analysis"],
       [name |-> "stream-separation", key |-> "stream_separation", list |-> "-",
        default |-> "phase2_synthesis"] >>

\* (a rule added to both lists)
append_rule_to_both(res, name, ra, cp) ==
    LET rule_info == [name |-> name, relaxes_at |-> ra]
    IN [res EXCEPT !.rules_should_relax = Append(@, rule_info),
                   !.rules_still_active = Append(@, rule_info)]
\* lines 155-159 (164-168, 173-177): the rule goes to one of the two lists
append_rule(res, name, ra, cp) ==
    LET rule_info == [name |-> name, relaxes_at |-> ra]
    IN IF should_relax(ra, cp).value
       THEN [res EXCEPT !.rules_should_relax = Append(@, rule_info)]
       ELSE [res EXCEPT !.rules_still_active = Append(@, rule_info)]

\* the condition of lines 153, 162, 171
in_force(design, isolation, rule) ==
    /\ Get(Get(isolation, rule.key, EmptyDict), "enabled", TRUE)
    /\ rule.list # "-" => Get(design, rule.list, <<>>) # <<>>

\* one of the three blocks of lines 152-177
check_rule(res, design, isolation, rule) ==
    IF in_force(design, isolation, rule)
    THEN append_rule(res, rule.name,
                     Get(Get(isolation, rule.key, EmptyDict), "relaxes_at", rule.default),
                     res.current_phase)
    ELSE res

\* check_phase from line 131, on the configuration it has loaded (the result's
\* phase_details repeat fields of sandwich_status and are left out)
check_phase(cfg) ==
    LET sandwich_status == Get(cfg, "sandwich_status", EmptyDict)
        design == Get(cfg, "research_design", EmptyDict)
        isolation == Get(design, "isolation_config", EmptyDict)
        r0 == [success |-> TRUE,
               current_phase |-> get_current_phase(sandwich_status),
               sandwich_status |-> sandwich_status,
               rules_should_relax |-> <<>>,
               rules_still_active |-> <<>>]
        r1 == check_rule(r0, design, isolation, IsolationRules[1])
        r2 == check_rule(r1, design, isolation, IsolationRules[2])
    IN check_rule(r2, design, isolation, IsolationRules[3])

\* the settings of one rule in isolation_config
RuleSettings(ra) ==
    {EmptyDict, [enabled |-> FALSE], [enabled |-> FALSE, relaxes_at |-> ra],
     [enabled |-> TRUE, relaxes_at |-> ra], [relaxes_at |-> "not_a_phase"]}
\* research_design sections
DesignArgs ==
    {EmptyDict}
    \cup { [cases |-> c, waves |-> w,
            isolation_config |-> [case_isolation |-> ci, wave_isolation |-> wi,
                                  stream_separation |-> ss]] :
             c \in {<<>>, <<"case_a">>}, w \in {<<>>, <<"wave_1">>},
             ci \in RuleSettings("phase1_parallel_streams"),
             wi \in {EmptyDict, [enabled |-> FALSE]},
             ss \in {EmptyDict, [enabled |-> FALSE],
                     [relaxes_at |-> "phase3_pattern_characterization"]} }
\* the configurations: with and without the two sections
ConfigArgs ==
    {EmptyDict}
    \cup {[research_design |-> d] : d \in DesignArgs}
    \cup {[sandwich_status |-> s, research_design |-> d] :
            s \in {[current_stage |-> "stage2"],
                   [current_stage |-> "stage2_collaboration"],
                   [current_stage |-> "stage2_collaboration",
                    stage2_progress |-> [phase2_synthesis |-> "in_progress"]],
                   [current_stage |-> "stage3_synthesis"]},
            d \in DesignArgs}

InitCheck ==
    /\ StoreIdle
    /\ LockIdle
    /\ StrainIdle
    /\ PhaseIdle
    /\ BufferIdle
    /\ LogIdle
    /\ SaturationIdle
    /\ config \in ConfigArgs
    /\ got = NoGot

\* a call get_current_phase(sandwich_status)
GetCurrentPhase ==
    \E s \in StatusArgs :
        /\ got' = [fn |-> "get_current_phase", arg |-> s, value |-> get_current_phase(s)]
        /\ UNCHANGED <<config, notCheck>>

\* a call check_phase(project_path) on a project with this configuration
CheckPhase ==
    /\ got' = [fn |-> "check_phase", arg |-> config, value |-> check_phase(config)]
    /\ UNCHANGED <<config, notCheck>>

NextCheck ==
    \/ GetCurrentPhase
    \/ CheckPhase

SpecCheck == InitCheck /\ [][NextCheck]_vars

\* --------------------------------------- reasoning_buffer.py: ReasoningBuffer
\* the number of add() calls (to a buffer that flushes every record, to a buffer
\* with a larger batch_size, to the buffers of two processes together), of
\* flush() calls by callers, and of failing writes
MaxAdds == 11
MaxBatchAdds == 6
MaxSharedAdds == 2
MaxFlushes == 1
MaxFailures == 1
\* batch_size of the tests, and a smaller one
BatchSizes == {2, 3}
\* the documents, added one after the other and then again
DocArgs == <<"doc_0", "doc_1">>

\* "batch_<YYYYmmdd_HHMMSS>_<total_flushed>.jsonl", lines 74-77, and the same
\* with ".tmp" appended, line 80
Name(ts, n) == [ts |-> ts, n |-> n, tmp |-> FALSE]
Temp(name) == [name EXCEPT !.tmp = TRUE]
\* str(n): the decimal digits of n
RECURSIVE Digits(_)
Digits(n) == IF n < 10 THEN <<n>> ELSE Append(Digits(n \div 10), n % 10)
\* a < b for two strings of digits that are each followed by "." in the name:
\* character by character, the shorter one first when it is a prefix ("." < "0")
LexLess(a, b) ==
    \E k \in 1..Len(b) :
        /\ \A j \in 1..(k - 1) : j <= Len(a) /\ a[j] = b[j]
        /\ k > Len(a) \/ a[k] < b[k]
\* the order of two .jsonl names as strings: the timestamp has a fixed width,
\* the running total is compared as text
NameLess(x, y) ==
    \/ x.ts < y.ts
    \/ x.ts = y.ts /\ LexLess(Digits(x.n), Digits(y.n))
\* sorted(names)
RECURSIVE sorted(_)
sorted(names) ==
    IF names = {} THEN <<>>
    ELSE LET first == CHOOSE x \in names : \A y \in names \ {x} : NameLess(x, y)
         IN <<first>> \o sorted(names \ {first})
\* json.dumps(entry) + '\n' and json.loads(line)
dumps(entry) == [json |-> entry]
loads(line) == line.json
RECURSIVE Lines(_)
Lines(entries) ==
    IF entries = <<>> THEN <<>> ELSE <<dumps(Head(entries))>> \o Lines(Tail(entries))
\* filename.endswith('.jsonl')
BatchFiles(d) == {f \in DOMAIN d : ~f.tmp}
\* the entries of the files of a list of names, file after file
RECURSIVE Scan(_, _)
Scan(d, names) ==
    IF names = <<>> THEN <<>>
    ELSE [i \in 1..Len(d[Head(names)]) |-> loads(d[Head(names)][i])]
         \o Scan(d, Tail(names))
\* the first entry of a list with this doc_id: its reasoning, or None
FirstFor(entries, doc_id) ==
    IF \E i \in 1..Len(entries) : entries[i].doc_id = doc_id
    THEN [none |-> FALSE,
          reasoning |-> entries[CHOOSE i \in 1..Len(entries) :
                                   /\ entries[i].doc_id = doc_id
                                   /\ \A j \in 1..(i - 1) : entries[j].doc_id # doc_id]
                        .reasoning]
    ELSE [none |-> TRUE]
\* get_all_reasoning, lines 123-133
get_all_reasoning(buf, d) == buf \o Scan(d, sorted(BatchFiles(d)))
\* get_reasoning_for_doc, lines 104-119
get_reasoning_for_doc(buf, d, doc_id) ==
    FirstFor(buf \o Scan(d, sorted(BatchFiles(d))), doc_id)

\* (a buffer that flushes only when it holds more than batch_size)
batch_exceeded(len, size) == len > size
\* line 57
batch_full(len, size) == len >= size
\* (a flush that keeps what it wrote)
buffer_kept(buf) == buf
\* line 89
buffer_after_flush(buf) == <<>>

BCall(fn, status, value, b) ==
    [fn |-> fn, status |-> status, value |-> value,
     buffer |-> buffer[b], dir |-> reasoning_dir, total_flushed |-> total_flushed[b]]
Ended(c, status, value) == [c EXCEPT !.status = status, !.value = value]
NoValue == [none |-> TRUE]
Adds == added["b1"] + added["b2"]
AddsAllowed(b) ==
    IF \A c \in Buffers : bpc[c] # "none" THEN MaxSharedAdds
    ELSE IF batch_size[b] = 1 THEN MaxAdds ELSE MaxBatchAdds

\* one ReasoningBuffer, just constructed, on a project without batch files
InitBuffer ==
    /\ StoreIdle
    /\ LockIdle
    /\ StrainIdle
    /\ PhaseIdle
    /\ CheckIdle
    /\ LogIdle
    /\ SaturationIdle
    /\ second = 0
    /\ reasoning_dir = EmptyDict
    /\ \E s \in BatchSizes : batch_size = [b \in Buffers |-> IF b = "b1" THEN s ELSE 0]
    /\ buffer = [b \in Buffers |-> <<>>]
    /\ total_flushed = [b \in Buffers |-> 0]
    /\ bpc = [b \in Buffers |-> IF b = "b1" THEN "idle" ELSE "none"]
    /\ batch_file = [b \in Buffers |-> NoName]
    /\ bcall = [b \in Buffers |-> NoBCall]
    /\ created = <<>>
    /\ added = [b \in Buffers |-> 0]
    /\ used = [flushes |-> 0, failures |-> 0]

\* one ReasoningBuffer that flushes every record (batch_size 1), used by a
\* caller that makes no flush() call of its own; no write fails
InitBatches ==
    /\ StoreIdle
    /\ LockIdle
    /\ StrainIdle
    /\ PhaseIdle
    /\ CheckIdle
    /\ LogIdle
    /\ SaturationIdle
    /\ second = 0
    /\ reasoning_dir = EmptyDict
    /\ batch_size = [b \in Buffers |-> IF b = "b1" THEN 1 ELSE 0]
    /\ buffer = [b \in Buffers |-> <<>>]
    /\ total_flushed = [b \in Buffers |-> 0]
    /\ bpc = [b \in Buffers |-> IF b = "b1" THEN "idle" ELSE "none"]
    /\ batch_file = [b \in Buffers |-> NoName]
    /\ bcall = [b \in Buffers |-> NoBCall]
    /\ created = <<>>
    /\ added = [b \in Buffers |-> 0]
    /\ used = [flushes |-> MaxFlushes, failures |-> MaxFailures]

\* two processes, each with its ReasoningBuffer on the same project
InitBuffers ==
    /\ StoreIdle
    /\ LockIdle
    /\ StrainIdle
    /\ PhaseIdle
    /\ CheckIdle
    /\ LogIdle
    /\ SaturationIdle
    /\ second = 0
    /\ reasoning_dir = EmptyDict
    /\ batch_size \in [Buffers -> {1} \cup BatchSizes]
    /\ buffer = [b \in Buffers |-> <<>>]
    /\ total_flushed = [b \in Buffers |-> 0]
    /\ bpc = [b \in Buffers |-> "idle"]
    /\ batch_file = [b \in Buffers |-> NoName]
    /\ bcall = [b \in Buffers |-> NoBCall]
    /\ created = <<>>
    /\ added = [b \in Buffers |-> 0]
    /\ used = [flushes |-> 0, failures |-> 0]

\* time passes
Second ==
    /\ second < MaxTime
    /\ second' = second + 1
    /\ UNCHANGED <<reasoning_dir, batch_size, buffer, total_flushed, bpc, batch_file,
                   bcall, created, added, used, notBuffer>>

\* add(doc_id, reasoning), lines 45-58, up to the write of its flush
Add(b) ==
    /\ bpc[b] = "idle"
    /\ Adds < AddsAllowed(b)
    /\ LET entry == [doc_id |-> DocArgs[(added[b] % Len(DocArgs)) + 1],
                     timestamp |-> second,
                     reasoning |-> <<b, added[b] + 1>>]
           full == batch_full(Len(buffer[b]) + 1, batch_size[b])
       IN /\ buffer' = [buffer EXCEPT ![b] = Append(@, entry)]
          /\ added' = [added EXCEPT ![b] = @ + 1]
          /\ bpc' = [bpc EXCEPT ![b] = IF full THEN "write" ELSE "idle"]
          /\ batch_file' = [batch_file EXCEPT
                               ![b] = IF full THEN Name(second, total_flushed[b]) ELSE @]
          /\ bcall' = [bcall EXCEPT
                          ![b] = BCall("add", IF full THEN "running" ELSE "returned",
                                       NoValue, b)]
    /\ UNCHANGED <<second, reasoning_dir, batch_size, total_flushed, created, used,
                   notBuffer>>

\* flush() called by the caller, lines 67-77
Flush(b) ==
    /\ bpc[b] = "idle"
    /\ used.flushes < MaxFlushes
    /\ used' = [used EXCEPT !.flushes = @ + 1]
    /\ IF buffer[b] = <<>>
       THEN /\ bcall' = [bcall EXCEPT ![b] = BCall("flush", "returned", NoValue, b)]
            /\ UNCHANGED <<bpc, batch_file>>
       ELSE /\ bcall' = [bcall EXCEPT ![b] = BCall("flush", "running", NoValue, b)]
            /\ bpc' = [bpc EXCEPT ![b] = "write"]
            /\ batch_file' = [batch_file EXCEPT ![b] = Name(second, total_flushed[b])]
    /\ UNCHANGED <<second, reasoning_dir, batch_size, buffer, total_flushed, created,
                   added, notBuffer>>

\* lines 80-83: the temporary file is opened for writing and the entries are
\* written; or the write fails (the file is left empty) and flush() raises
WriteTemp(b) ==
    /\ bpc[b] = "write"
    /\ \E fails \in BOOLEAN :
          /\ fails => used.failures < MaxFailures
          /\ reasoning_dir' = SetItem(reasoning_dir, Temp(batch_file[b]),
                                      IF fails THEN <<>> ELSE Lines(buffer[b]))
          /\ bpc' = [bpc EXCEPT ![b] = IF fails THEN "idle" ELSE "rename"]
          /\ bcall' = [bcall EXCEPT
                          ![b] = IF fails THEN Ended(@, "raised", NoValue) ELSE @]
          /\ used' = [used EXCEPT !.failures = IF fails THEN @ + 1 ELSE @]
    /\ UNCHANGED <<second, batch_size, buffer, total_flushed, batch_file, created,
                   added, notBuffer>>

\* lines 85-91: os.rename(temp_file, batch_file), which replaces a batch_file
\* that exists and raises when temp_file is gone; then the fields are updated
RenameBatch(b) ==
    /\ bpc[b] = "rename"
    /\ LET temp == Temp(batch_file[b])
       IN IF temp \in DOMAIN reasoning_dir
          THEN LET lines == reasoning_dir[temp]
                   rest == [f \in DOMAIN reasoning_dir \ {temp} |-> reasoning_dir[f]]
               IN /\ reasoning_dir' = SetItem(rest, batch_file[b], lines)
                  /\ created' = Append(created, [name |-> batch_file[b], lines |-> lines])
                  /\ total_flushed' = [total_flushed EXCEPT ![b] = @ + Len(buffer[b])]
                  /\ buffer' = [buffer EXCEPT ![b] = buffer_after_flush(@)]
                  /\ bcall' = [bcall EXCEPT
                                  ![b] = Ended(@, "returned",
                                               IF @.fn = "flush"
                                               THEN [none |-> FALSE, path |-> batch_file[b]]
                                               ELSE NoValue)]
          ELSE /\ bcall' = [bcall EXCEPT ![b] = Ended(@, "raised", NoValue)]
               /\ UNCHANGED <<reasoning_dir, created, total_flushed, buffer>>
    /\ bpc' = [bpc EXCEPT ![b] = "idle"]
    /\ UNCHANGED <<second, batch_size, batch_file, added, used, notBuffer>>

\* get_all_reasoning()
GetAllReasoning(b) ==
    /\ bpc[b] = "idle"
    /\ bcall' = [bcall EXCEPT
                    ![b] = BCall("get_all_reasoning", "returned",
                                 get_all_reasoning(buffer[b], reasoning_dir), b)]
    /\ UNCHANGED <<second, reasoning_dir, batch_size, buffer, total_flushed, bpc,
                   batch_file, created, added, used, notBuffer>>

\* get_reasoning_for_doc(doc_id)
GetReasoningForDoc(b) ==
    /\ bpc[b] = "idle"
    /\ \E i \in 1..Len(DocArgs) :
          bcall' = [bcall EXCEPT
                       ![b] = BCall("get_reasoning_for_doc", "returned",
                                    get_reasoning_for_doc(buffer[b], reasoning_dir,
                                                          DocArgs[i]), b)
                              @@ [doc_id |-> DocArgs[i]]]
    /\ UNCHANGED <<second, reasoning_dir, batch_size, buffer, total_flushed, bpc,
                   batch_file, created, added, used, notBuffer>>

NextBuffer ==
    \/ Second
    \/ \E b \in Buffers : Add(b)
    \/ \E b \in Buffers : Flush(b)
    \/ \E b \in Buffers : WriteTemp(b)
    \/ \E b \in Buffers : RenameBatch(b)
    \/ \E b \in Buffers : GetAllReasoning(b)
    \/ \E b \in Buffers : GetReasoningForDoc(b)

SpecBuffer == InitBuffer /\ [][NextBuffer]_vars
SpecBuffers == InitBuffers /\ [][NextBuffer]_vars

NextBatches ==
    \/ Second
    \/ \E b \in Buffers : Add(b)
    \/ \E b \in Buffers : WriteTemp(b)
    \/ \E b \in Buffers : RenameBatch(b)
    \/ \E b \in Buffers : GetAllReasoning(b)
    \/ \E b \in Buffers : GetReasoningForDoc(b)

SpecBatches == InitBatches /\ [][NextBatches]_vars

\* ------------------------------------ conversation_logger.py: ConversationLogger
\* the number of log() calls
MaxLogs == 2

\* the text of a file is a sequence of units: the text of one JSON object or of
\* one Markdown entry, and the line feed
LF == [lf |-> TRUE]
\* json.dumps(event, default=str) + '\n', line 77
JsonLine(event) == <<[json |-> event], LF>>
\* md_entry + '\n\n', lines 87-101 (_format_coding_event for a coded_document)
MdEntry(event) == <<[md |-> "Coding", ts |-> event.timestamp, agent |-> event.agent,
                     doc_id |-> event.content], LF, LF>>
TextFor(sink, event) == IF sink = "jsonl" THEN JsonLine(event) ELSE MdEntry(event)

\* (a log() that writes the narrative entry first)
md_then_jsonl == <<"md", "jsonl">>
\* log(event), lines 52-56: the sinks in the order log() writes them,
\* _append_jsonl and then _append_md
jsonl_then_md == <<"jsonl", "md">>

\* (a descriptor that writes where the file ended when it was opened)
position_at_open(end, pos) == pos
\* where a write lands through a descriptor opened with O_APPEND: at the end
\* the file has at that moment
append_position(end, pos) == end

\* for line in f: json.loads(line), lines 179-181
RECURSIVE ReadLines(_)
ReadLines(text) ==
    IF Len(text) < 2 THEN <<>>
    ELSE <<text[1].json>> \o ReadLines(SubSeq(text, 3, Len(text)))
\* list[start:] of Python
SliceFrom(l, start) ==
    LET from == IF start < 0
                THEN (IF Len(l) + start < 0 THEN 0 ELSE Len(l) + start)
                ELSE (IF start > Len(l) THEN Len(l) ELSE start)
    IN SubSeq(l, from + 1, Len(l))
\* get_recent_events(n), lines 175-183
get_recent_events(file, n) ==
    IF ~file.exists THEN <<>> ELSE SliceFrom(ReadLines(file.text), 0 - n)

InitLog ==
    /\ StoreIdle
    /\ HAS_FCNTL \in BOOLEAN
    /\ tpc = [t \in Threads |-> "out"]
    /\ exclusive = [t \in Threads |-> TRUE]
    /\ file_open = [t \in Threads |-> TRUE]
    /\ flock = [t \in Threads |-> "none"]
    /\ self_lock = [t \in Threads |-> "None"]
    /\ exc = [t \in Threads |-> "none"]
    /\ ran = [t \in Threads |-> FALSE]
    /\ ended = [t \in Threads |-> NoEnd]
    /\ StrainIdle
    /\ PhaseIdle
    /\ CheckIdle
    /\ BufferIdle
    /\ SaturationIdle
    /\ log_files = [s \in Sinks |-> NoFile]
    /\ lpc = [p \in Procs |-> AtRest]
    /\ event_with_ts = [p \in Procs |-> NoEvent]
    /\ pending = [p \in Procs |-> <<>>]
    /\ position = [p \in Procs |-> 0]
    /\ file_flock = [s \in Sinks |-> "none"]
    /\ logged = [p \in Procs |-> 0]
    /\ recent = NoRecent

At(p, step) == lpc[p].step = step
Goto(p, step) == lpc' = [lpc EXCEPT ![p].step = step]
Logs == logged["p1"] + logged["p2"]

\* log(event), lines 44-50: the event gets its timestamp
Log(p) ==
    /\ At(p, "idle")
    /\ Logs < MaxLogs
    /\ logged' = [logged EXCEPT ![p] = @ + 1]
    /\ event_with_ts' = [event_with_ts EXCEPT
                            ![p] = [event_type |-> "coded_document", agent |-> p,
                                    content |-> logged[p] + 1, timestamp |-> Logs]]
    /\ lpc' = [lpc EXCEPT ![p] = [step |-> "open", sink |-> jsonl_then_md[1]]]
    /\ UNCHANGED <<log_files, pending, position, file_flock, recent, notLog>>

\* open(file, 'a'), lines 75 and 99: the file is created if it is not there
OpenAppend(p) ==
    /\ At(p, "open")
    /\ log_files' = [log_files EXCEPT ![lpc[p].sink].exists = TRUE]
    /\ position' = [position EXCEPT ![p] = Len(log_files[lpc[p].sink].text)]
    /\ Goto(p, "lock")
    /\ UNCHANGED <<event_with_ts, pending, file_flock, logged, recent, notLog>>

\* lock_file(f, exclusive=True), lines 76 and 100: flock where there is fcntl,
\* which waits while another process holds the lock; without it a
\* threading.Lock of its own, which no other acquirer shares
AcquireLock(p) ==
    /\ At(p, "lock")
    /\ IF HAS_FCNTL
       THEN /\ file_flock[lpc[p].sink] = "none"
            /\ file_flock' = [file_flock EXCEPT ![lpc[p].sink] = p]
       ELSE UNCHANGED file_flock
    /\ Goto(p, "write")
    /\ UNCHANGED <<log_files, event_with_ts, pending, position, logged, recent, notLog>>

\* f.write(...), lines 77 and 101: the text goes to the buffer of the file object
BufferedWrite(p) ==
    /\ At(p, "write")
    /\ pending' = [pending EXCEPT ![p] = TextFor(lpc[p].sink, event_with_ts[p])]
    /\ Goto(p, "unlock")
    /\ UNCHANGED <<log_files, event_with_ts, position, file_flock, logged, recent, notLog>>

\* the end of the with-statement of lock_file: the lock is released
ReleaseLock(p) ==
    /\ At(p, "unlock")
    /\ file_flock' = [file_flock EXCEPT ![lpc[p].sink] = IF @ = p THEN "none" ELSE @]
    /\ Goto(p, "close")
    /\ UNCHANGED <<log_files, event_with_ts, pending, position, logged, recent, notLog>>

\* what follows the write of a sink: the other sink, or the return of log()
Written(p) ==
    lpc' = [lpc EXCEPT ![p] = IF @.sink = jsonl_then_md[1]
                              THEN [step |-> "open", sink |-> jsonl_then_md[2]]
                              ELSE AtRest]

\* the end of the with-statement of open: close() writes the buffer out. With
\* fcntl (Unix) the descriptor has O_APPEND and the write lands at the end of the
\* file in one step; elsewhere append mode is a seek to the end that the write
\* follows
CloseFile(p) ==
    /\ At(p, "close")
    /\ LET s == lpc[p].sink
       IN IF HAS_FCNTL
          THEN /\ log_files' = [log_files EXCEPT
                                   ![s].text = WriteAt(@, append_position(Len(@), position[p]),
                                                       pending[p])]
               /\ pending' = [pending EXCEPT ![p] = <<>>]
               /\ Written(p)
               /\ UNCHANGED position
          ELSE /\ position' = [position EXCEPT ![p] = Len(log_files[s].text)]
               /\ Goto(p, "put")
               /\ UNCHANGED <<log_files, pending>>
    /\ UNCHANGED <<event_with_ts, file_flock, logged, recent, notLog>>

\* the write that follows the seek
PutText(p) ==
    /\ At(p, "put")
    /\ log_files' = [log_files EXCEPT
                        ![lpc[p].sink].text = WriteAt(@, position[p], pending[p])]
    /\ pending' = [pending EXCEPT ![p] = <<>>]
    /\ Written(p)
    /\ UNCHANGED <<event_with_ts, position, file_flock, logged, recent, notLog>>

\* get_recent_events(n)
GetRecentEvents ==
    \E n \in 0..(MaxLogs + 1) :
        /\ recent' = [n |-> n, value |-> get_recent_events(log_files["jsonl"], n),
                      events |-> ReadLines(log_files["jsonl"].text)]
        /\ UNCHANGED <<log_files, lpc, event_with_ts, pending, position, file_flock,
                       logged, notLog>>

NextLog ==
    \/ \E p \in Procs : Log(p)
    \/ \E p \in Procs : OpenAppend(p)
    \/ \E p \in Procs : AcquireLock(p)
    \/ \E p \in Procs : BufferedWrite(p)
    \/ \E p \in Procs : ReleaseLock(p)
    \/ \E p \in Procs : CloseFile(p)
    \/ \E p \in Procs : PutText(p)
    \/ GetRecentEvents

SpecLog == InitLog /\ [][NextLog]_vars

\* ----------------------------------- saturation_tracker.py: the saturation assessor
\* the number of record_document calls, of record_refinement calls, and of days
MaxDocs == 7
MaxChanges == 2
MaxDay == 6
\* --new-codes, and --change-type
NewCodesArgs == 0..3
ChangeTypeArgs == {"split", "redefinition"}

\* l[-n:] for n >= 1
LastN(l, n) == IF Len(l) <= n THEN l ELSE SubSeq(l, Len(l) - n + 1, Len(l))
\* sum(d['new_codes_created'] for d in docs)
RECURSIVE SumNewCodes(_)
SumNewCodes(docs) ==
    IF docs = <<>> THEN 0 ELSE Head(docs).new_codes_created + SumNewCodes(Tail(docs))
\* round(total / n, 2), in hundredths (n <= 5: no quotient lies halfway)
Rate(total, n) == (200 * total + n) \div (2 * n)
\* avg_rate < threshold, the threshold in hundredths
BelowThreshold(total, n, threshold) == 100 * total < threshold * n

\* (a document that stabilizes although one did before)
not_checked(stabilized_at_document) == TRUE
\* not tracking['code_generation']['stabilized_at_document'], line 163
not_stabilized(stabilized_at_document) == stabilized_at_document = None

\* record_document(config, doc_id, doc_name, new_codes), lines 142-175
record_document(cg, doc_id, new_codes, today) ==
    LET docs == Append(cg.codes_by_document,
                       [document_id |-> doc_id, new_codes_created |-> new_codes,
                        timestamp |-> today])
        recent_docs == LastN(docs, 5)
        total == SumNewCodes(recent_docs)
        threshold == thresholds.code_generation_stable
        stabilizes == /\ not_stabilized(cg.stabilized_at_document)
                      /\ BelowThreshold(total, Len(recent_docs), threshold)
                      /\ Len(recent_docs) >= 3
    IN [total_codes |-> cg.total_codes + new_codes,
        codes_by_document |-> docs,
        generation_rate |-> Rate(total, Len(recent_docs)),
        stabilized_at_document |-> IF stabilizes THEN doc_id ELSE cg.stabilized_at_document]

\* record_refinement(config, code_id, change_type), lines 200-231
record_refinement(rf, change_type, today) ==
    LET changes == Append(rf.definition_changes,
                          [code_id |-> "coping", change_type |-> change_type,
                           timestamp |-> today])
        recent_changes == LastN(changes, 10)
        five_days_ago == today - 5
        recent_count == Cardinality({i \in 1..Len(recent_changes) :
                                        recent_changes[i].timestamp > five_days_ago})
    IN [definition_changes |-> changes,
        changes_last_5_documents |-> IF recent_count < 10 THEN recent_count ELSE 10,
        split_merge_count |-> rf.split_merge_count
                              + (IF change_type \in {"split", "merge"} THEN 1 ELSE 0)]

\* round(x) of Python for x = num / den >= 0: to the nearest, halves to even
RoundHalfEven(num, den) ==
    LET q == num \div den
        r == num % den
    IN IF 2 * r > den \/ (2 * r = den /\ q % 2 = 1) THEN q + 1 ELSE q
\* the four signals of assess_saturation with the points each adds, lines 341-398
GenerationSignal(cg) ==
    IF cg.generation_rate < thresholds.code_generation_stable
    THEN [signal |-> "STABLE", value |-> cg.generation_rate, points |-> 30]
    ELSE IF cg.generation_rate < thresholds.code_generation_stable * 2
    THEN [signal |-> "SLOWING", value |-> cg.generation_rate, points |-> 15]
    ELSE [signal |-> "ACTIVE", value |-> cg.generation_rate, points |-> 0]
CoverageSignal(cc) ==
    LET coverage_data == cc.coverage_by_code
        code_count == Cardinality(DOMAIN coverage_data)
        adequate == Cardinality({c \in DOMAIN coverage_data :
                                    coverage_data[c].coverage_percent >= 200})
    IN IF code_count = 0 THEN [signal |-> "NO DATA", value |-> 0, points |-> 0]
       ELSE IF 100 * adequate >= thresholds.coverage_adequate * code_count
       THEN [signal |-> "ADEQUATE", value |-> RoundHalfEven(100 * adequate, code_count),
             points |-> 25]
       ELSE [signal |-> "DEVELOPING", value |-> RoundHalfEven(100 * adequate, code_count),
             points |-> RoundHalfEven(15 * adequate, code_count)]
RefinementSignal(rf) ==
    LET recent_refinements == rf.changes_last_5_documents
    IN IF recent_refinements <= thresholds.refinement_stable
       THEN [signal |-> "STABLE", value |-> recent_refinements, points |-> 25]
       ELSE [signal |-> "ACTIVE", value |-> recent_refinements, points |-> 5]
RedundancySignal(rd) ==
    IF rd.redundancy_score >= thresholds.redundancy_high
    THEN [signal |-> "HIGH", value |-> rd.redundancy_score, points |-> 20]
    ELSE IF 10 * rd.redundancy_score >= thresholds.redundancy_high * 7
    THEN [signal |-> "EMERGING", value |-> rd.redundancy_score, points |-> 12]
    ELSE [signal |-> "LOW", value |-> rd.redundancy_score, points |-> 0]
\* (levels that begin above 90, 70, 50 and 25)
level_above(saturation_score) ==
    IF saturation_score > 90 THEN "saturated"
    ELSE IF saturation_score > 70 THEN "high"
    ELSE IF saturation_score > 50 THEN "approaching"
    ELSE IF saturation_score > 25 THEN "emerging"
    ELSE "low"
\* lines 401-427
Level(saturation_score) ==
    IF saturation_score >= 90 THEN "saturated"
    ELSE IF saturation_score >= 70 THEN "high"
    ELSE IF saturation_score >= 50 THEN "approaching"
    ELSE IF saturation_score >= 25 THEN "emerging"
    ELSE "low"
\* assess_saturation(config), lines 328-453: what it returns
assess_saturation(cg, cc, rf, rd) ==
    LET evidence == [code_generation_signal |-> GenerationSignal(cg),
                     coverage_signal |-> CoverageSignal(cc),
                     refinement_signal |-> RefinementSignal(rf),
                     redundancy_signal |-> RedundancySignal(rd)]
        saturation_score == evidence.code_generation_signal.points
                            + evidence.coverage_signal.points
                            + evidence.refinement_signal.points
                            + evidence.redundancy_signal.points
    IN [success |-> TRUE,
        saturation_level |-> Level(saturation_score),
        saturation_score |-> saturation_score,
        evidence |-> evidence,
        metrics |-> [code_generation_rate |-> cg.generation_rate,
                     total_codes |-> cg.total_codes,
                     documents_coded |-> Len(cg.codes_by_document),
                     stabilized_at |-> cg.stabilized_at_document,
                     recent_refinements |-> rf.changes_last_5_documents,
                     redundancy_score |-> rd.redundancy_score,
                     rare_codes |-> Len(cc.rare_codes),
                     universal_codes |-> Len(cc.universal_codes)]]

\* the documents of a project are recorded one after the other
InitDocuments ==
    /\ StoreIdle
    /\ LockIdle
    /\ StrainIdle
    /\ PhaseIdle
    /\ CheckIdle
    /\ BufferIdle
    /\ LogIdle
    /\ day = 0
    /\ code_generation = NewCodeGeneration
    /\ code_coverage = NewCodeCoverage
    /\ refinement = NewRefinement
    /\ redundancy = NewRedundancy
    /\ saturation_signals = NewSignals
    /\ sat_result = NoSatResult

\* record_document for the next document, INT_001, INT_002, ...
RecordDocument ==
    /\ Len(code_generation.codes_by_document) < MaxDocs
    /\ \E new_codes \in NewCodesArgs :
          LET doc_id == Len(code_generation.codes_by_document) + 1
              cg == record_document(code_generation, doc_id, new_codes, day)
          IN /\ code_generation' = cg
             /\ sat_result' = [fn |-> "record_document", day |-> day,
                               document |-> doc_id, new_codes |-> new_codes,
                               total_codes |-> cg.total_codes,
                               generation_rate |-> cg.generation_rate,
                               stabilized |-> cg.stabilized_at_document # None,
                               stabilized_at |-> cg.stabilized_at_document]
    /\ UNCHANGED <<day, code_coverage, refinement, redundancy, saturation_signals,
                   notSaturation>>

NextDocuments == RecordDocument

SpecDocuments == InitDocuments /\ [][NextDocuments]_vars

\* definitions are refined and saturation is assessed over the days
InitRefinement == InitDocuments

\* a day passes
Day ==
    /\ day < MaxDay
    /\ day' = day + 1
    /\ UNCHANGED <<code_generation, code_coverage, refinement, redundancy,
                   saturation_signals, sat_result, notSaturation>>

RecordRefinement ==
    /\ Len(refinement.definition_changes) < MaxChanges
    /\ \E change_type \in ChangeTypeArgs :
          LET rf == record_refinement(refinement, change_type, day)
          IN /\ refinement' = rf
             /\ sat_result' = [fn |-> "record_refinement", day |-> day,
                               change_type |-> change_type,
                               total_refinements |-> Len(rf.definition_changes),
                               split_merge_count |-> rf.split_merge_count,
                               recent_activity |-> rf.changes_last_5_documents]
    /\ UNCHANGED <<day, code_generation, code_coverage, redundancy, saturation_signals,
                   notSaturation>>

AssessSaturation ==
    LET res == assess_saturation(code_generation, code_coverage, refinement, redundancy)
    IN /\ saturation_signals' = [overall_level |-> res.saturation_level,
                                 last_assessment |-> day,
                                 recommendation |-> res.saturation_level,
                                 evidence |-> res.evidence]
       /\ sat_result' = [fn |-> "assess_saturation", day |-> day, value |-> res]
       /\ UNCHANGED <<day, code_generation, code_coverage, refinement, redundancy,
                      notSaturation>>

NextRefinement ==
    \/ Day
    \/ RecordRefinement
    \/ AssessSaturation

SpecRefinement == InitRefinement /\ [][NextRefinement]_vars

\* ------------------------- saturation_tracker.py: coverage, redundancy, assessment
\* coverage_data (code_id -> document_count; no case_count): no code, one code,
\* or the two codes of the test; config['coding_progress']['documents_coded'],
\* line 249
CodeArgs == <<"coping", "resilience">>
DocumentCountArgs == {1, 2, 16, 17}
TotalDocumentsArgs == {0, 20}
CoverageDataArgs ==
    {EmptyDict, [c \in {"coping", "resilience"} |-> IF c = "coping" THEN 16 ELSE 17]}
    \cup UNION {[{CodeArgs[i]} -> DocumentCountArgs] : i \in 1..Len(CodeArgs)}
\* --score, in hundredths
ScoreArgs == {-20, 60, 150}

\* round((document_count / total_documents) * 100, 1), in tenths of a percent
CoveragePercent(document_count, total_documents) ==
    RoundHalfEven(1000 * document_count, total_documents)
\* line 265
is_rare(coverage_percent) == coverage_percent < 100
\* (a code with 80.0 percent counted as universal)
universal_from_80(coverage_percent) == coverage_percent >= 800
\* line 267
is_universal(coverage_percent) == coverage_percent > 800
\* update_coverage(config, coverage_data), lines 248-271, for total_documents # 0;
\* the lists are given in the order of CodeArgs
update_coverage(cc, coverage_data, total_documents) ==
    LET by_code == [c \in DOMAIN cc.coverage_by_code \cup DOMAIN coverage_data |->
                       IF c \in DOMAIN coverage_data
                       THEN [document_count |-> coverage_data[c],
                             case_count |-> 0,
                             coverage_percent |-> CoveragePercent(coverage_data[c],
                                                                  total_documents)]
                       ELSE cc.coverage_by_code[c]]
        rare(c) == /\ c \in DOMAIN by_code
                   /\ is_rare(by_code[c].coverage_percent)
        universal(c) == /\ c \in DOMAIN by_code
                        /\ ~is_rare(by_code[c].coverage_percent)
                        /\ is_universal(by_code[c].coverage_percent)
    IN [coverage_by_code |-> by_code,
        rare_codes |-> SelectSeq(CodeArgs, rare),
        universal_codes |-> SelectSeq(CodeArgs, universal)]

\* (a score stored as it is given)
not_clamped(score) == score
\* max(0, min(1, float(score))), line 300
clamp(score) ==
    LET least == IF score < 100 THEN score ELSE 100
    IN IF least > 0 THEN least ELSE 0
\* update_redundancy(config, score), lines 297-302
update_redundancy(rd, score, today) ==
    [rd EXCEPT !.redundancy_score = clamp(score),
               !.last_assessment = today,
               !.assessment_notes = ""]

\* the tracking after record_document calls for these numbers of new codes, and
\* after this many record_refinement calls
RECURSIVE RecordAll(_, _)
RecordAll(cg, new_codes) ==
    IF new_codes = <<>> THEN cg
    ELSE RecordAll(record_document(cg, Len(cg.codes_by_document) + 1, Head(new_codes), 0),
                   Tail(new_codes))
RECURSIVE RefineAll(_, _)
RefineAll(rf, n) ==
    IF n = 0 THEN rf ELSE RefineAll(record_refinement(rf, "redefinition", 0), n - 1)

\* a project on which no document, one document with three new codes, or two
\* documents with one new code were recorded, and no or three refinements
InitAssess ==
    /\ StoreIdle
    /\ LockIdle
    /\ StrainIdle
    /\ PhaseIdle
    /\ CheckIdle
    /\ BufferIdle
    /\ LogIdle
    /\ day = 0
    /\ code_generation \in {RecordAll(NewCodeGeneration, s) : s \in {<<>>, <<3>>, <<1, 0>>}}
    /\ code_coverage = NewCodeCoverage
    /\ refinement \in {RefineAll(NewRefinement, n) : n \in {0, 3}}
    /\ redundancy = NewRedundancy
    /\ saturation_signals = NewSignals
    /\ sat_result = NoSatResult

\* update_coverage: it raises ZeroDivisionError at the first code (line 253)
\* when documents_coded is 0
UpdateCoverage ==
    \E coverage_data \in CoverageDataArgs, total_documents \in TotalDocumentsArgs :
        LET raises == total_documents = 0 /\ DOMAIN coverage_data # {}
            cc == IF raises THEN code_coverage
                  ELSE update_coverage(code_coverage, coverage_data, total_documents)
        IN /\ code_coverage' = cc
           /\ sat_result' = [fn |-> "update_coverage", day |-> day,
                             total_documents |-> total_documents,
                             raised |-> raises,
                             total_codes_tracked |-> Cardinality(DOMAIN cc.coverage_by_code),
                             rare_codes |-> Len(cc.rare_codes),
                             universal_codes |-> Len(cc.universal_codes)]
           /\ UNCHANGED <<day, code_generation, refinement, redundancy,
                          saturation_signals, notSaturation>>

UpdateRedundancy ==
    \E score \in ScoreArgs :
        LET rd == update_redundancy(redundancy, score, day)
        IN /\ redundancy' = rd
           /\ sat_result' = [fn |-> "update_redundancy", day |-> day, score |-> score,
                             redundancy_score |-> rd.redundancy_score,
                             threshold |-> rd.threshold,
                             above_threshold |-> rd.redundancy_score >= rd.threshold]
           /\ UNCHANGED <<day, code_generation, code_coverage, refinement,
                          saturation_signals, notSaturation>>

NextAssess ==
    \/ UpdateCoverage
    \/ UpdateRedundancy
    \/ AssessSaturation

SpecAssess == InitAssess /\ [][NextAssess]_vars

\* ------------------------------------ defensive_router.py: DefensiveSkillRouter
\* the skills route is asked for: the public ones, one skill of each stage
PublicSkills == {"qual-init", "qual-status", "qual-design"}
\* SKILL_REQUIREMENTS.get(requested_skill), lines 24-42 and 70: None for the
\* public skills (and for a skill the table does not hold)
SKILL_REQUIREMENTS(requested_skill) ==
    IF requested_skill = "stage1-listener" THEN <<"stage1">>
    ELSE IF requested_skill \in {"qual-coding", "qual-analysis"} THEN <<"stage2", "stage3">>
    ELSE IF requested_skill \in {"dialogical-coder", "research-configurator"}
    THEN <<"stage2">>
    ELSE IF requested_skill \in {"qual-synthesis", "scholarly-companion"}
    THEN <<"stage3">>
    ELSE <<>>
IsPublic(requested_skill) == SKILL_REQUIREMENTS(requested_skill) = <<>>
\* _route_to_atelier, lines 108-139
flow_mapping(current_stage) ==
    IF current_stage = "stage1" THEN "qual-init" ELSE "qual-status"
\* route(requested_skill), lines 67-96, given the current_stage of the state
\* that self.state_manager.load() returned at line 66
route(current_stage, requested_skill) ==
    LET required_stages == SKILL_REQUIREMENTS(requested_skill)
    IN IF IsPublic(requested_skill) \/ In(current_stage, required_stages)
       THEN [action |-> "allow", skill |-> requested_skill, state |-> current_stage]
       ELSE [action |-> "route_to_flow", flow |-> flow_mapping(current_stage),
             current_stage |-> current_stage, required_stage |-> required_stages[1],
             requested_skill |-> requested_skill]

\* -------------------------- strain_check.py: invocations of the script on a project
\* config['research_design'] with neither strain tracking data nor overrides
EmptyDesign == [strain_tracking |-> NoTracking, rule_overrides |-> <<>>]
\* a project whose config.json holds a research_design section next to the
\* fields of ProjectState
DesignText == SubSeq(CodedText, 1, Len(CodedText) - 1)
              \o <<<<"research_design", EmptyDesign>>, RBRACE>>
\* config.json as StateManager wrote it, and with a research_design section
InvokeTexts == {CodedText, DesignText}

\* load_config(project_path), lines 37-65, on a config.json that holds a JSON
\* object: the dict of the ProjectState that StateManager.load() returns, or,
\* when that raises (a key that is no field of ProjectState), the dict that
\* json.load gives
load_config(t) ==
    LET data == json_load(t)
    IN IF ~from_dict_raises(data)
       THEN [via |-> "StateManager", config |-> to_dict(from_dict(data))]
       ELSE [via |-> "file", config |-> data.d]
\* the keys of the dict json.load gave, followed by research_design if new
KeysAtDump(t) ==
    LET keys == [i \in 1..(Len(t) - 2) |-> t[i + 1][1]]
    IN IF \E i \in 1..Len(keys) : keys[i] = "research_design" THEN keys
       ELSE Append(keys, "research_design")
\* save_config(project_path, config), lines 68-106: the text config.json holds
\* afterwards.  With a state that StateManager.load() returns, the keys of
\* config that are fields of ProjectState are set on it (lines 88-91) and the
\* state is saved; when load() raises, config is written as it is (lines 97-104)
save_config(t, cfg, today) ==
    LET data == json_load(t)
    IN IF ~from_dict_raises(data)
       THEN LET state == from_dict(data)
                updated == [k \in Fields |->
                               IF k \in DOMAIN cfg THEN cfg[k] ELSE state[k]]
            IN StateText(save_stamp(updated, today))
       ELSE json_dump(cfg, KeysAtDump(t))

\* the script has not been run, or its last run has ended
NotRunning == called.fn \in {"-", "save_config"}

\* a project on which the strain detector has not been run
InitInvoke ==
    /\ now = 0
    /\ \E t \in InvokeTexts :
          /\ dir = [n \in Names |-> IF n = state_file THEN 1 ELSE 0]
          /\ ino = [i \in Inodes |-> IF i = 1 THEN [content |-> t, mtime |-> 0]
                                               ELSE EmptyInode]
    /\ lock = [i \in Inodes |-> "none"]
    /\ pc = [p \in Procs |-> "idle"]
    /\ op = [p \in Procs |-> "-"]
    /\ arg = [p \in Procs |-> "-"]
    /\ inload = [p \in Procs |-> FALSE]
    /\ st = [p \in Procs |-> NoState]
    /\ fd = [p \in Procs |-> 0]
    /\ cache = [p \in Procs |-> NoState]
    /\ cache_mtime = [p \in Procs |-> None]
    /\ cur_mtime = [p \in Procs |-> None]
    /\ last = [p \in Procs |-> NoRes]
    /\ quiet = [p \in Procs |-> TRUE]
    /\ quietPrev = [p \in Procs |-> TRUE]
    /\ fresh = [p \in Procs |-> FALSE]
    /\ calls = 0
    /\ LockIdle
    /\ StrainIdle
    /\ PhaseIdle
    /\ CheckIdle
    /\ BufferIdle
    /\ LogIdle
    /\ SaturationIdle

\* main, line 438: a run of the script starts with load_config; tracking and
\* rule_overrides are those of the dict it works on
LoadConfig ==
    /\ NotRunning
    /\ nops < MaxOps
    /\ LET loaded == load_config(Content(state_file))
           design == Get(loaded.config, "research_design", EmptyDesign)
       IN /\ tracking' = design.strain_tracking
          /\ rule_overrides' = design.rule_overrides
          /\ called' = [fn |-> "load_config", rule_id |-> "-", arg |-> loaded.via]
    /\ UNCHANGED <<result, before, streak, nops, notStrain>>

\* main, lines 447 and 459: --record-override --rule-id rule_id; a config.json
\* of these projects has no sandwich_status
RecordOverride(rule_id) ==
    /\ called.fn = "load_config"
    /\ record_override(rule_id, get_current_phase(NoStatus))

\* main, line 460: save_config(project_path, config)
SaveConfig ==
    /\ called.fn = "record_override"
    /\ LET loaded == load_config(Content(state_file))
           cfg == SetItem(loaded.config, "research_design",
                             [strain_tracking |-> tracking,
                              rule_overrides |-> rule_overrides])
           text == save_config(Content(state_file), cfg, now)
       IN /\ ino' = [ino EXCEPT ![dir[state_file]] = [content |-> text, mtime |-> now]]
          /\ called' = [called EXCEPT !.fn = "save_config", !.arg = loaded.via]
    /\ UNCHANGED <<now, dir, lock, pc, op, arg, inload, st, fd, cache, cache_mtime,
                   cur_mtime, last, quiet, quietPrev, fresh, calls>>
    /\ UNCHANGED <<tracking, rule_overrides, result, before, streak, nops>>
    /\ UNCHANGED <<lockVars, phaseVars, checkVars, bufferVars, logVars, saturationVars>>

NextInvoke ==
    \/ LoadConfig
    \/ \E r \in RuleArgs : RecordOverride(r)
    \/ SaveConfig

SpecInvoke == InitInvoke /\ [][NextInvoke]_vars

\* ------------------------------------------ workspace_branch.py: WorkspaceBranch
\* The methods are called on one config dict (the variable config), which has
\* no 'workspace_branches' key at first; got is what the last call returned.
MaxDecisions == 6    \* no call is made once branch_decisions holds this many records

BranchNameArgs == {"alpha"}
FramingArgs == {"None", "exploratory", "no-such-framing"}
valid_framings == {"exploratory", "confirmatory", "negative_case",
                   "alternative_interpretation"}
\* len(memo.strip()) of the memo merge_branch is given, 0 for None
MemoArgs == {0, 49, 50}

\* _init_workspace_branches, lines 63-82: the structure a config gets that has
\* none
\* a branch id is a tuple: the id 'main', the pair an id is generated from;
\* the empty tuple is None
MainId == <<"main">>
NoBranch == <<>>
NewBranches ==
    [current_branch |-> MainId,
     branches |-> <<[id |-> MainId, name |-> "Main Analysis", parent_branch |-> NoBranch,
                     methodological_framing |-> "None", status |-> "active",
                     merge_memo |-> 0]>>,
     branch_decisions |-> <<>>]
_init_workspace_branches(cfg) ==
    IF "workspace_branches" \in DOMAIN cfg THEN cfg.workspace_branches ELSE NewBranches

\* _generate_branch_id(name), lines 84-97: the name and the clock in
\* milliseconds
_generate_branch_id(name, timestamp_ms) == <<name, timestamp_ms>>
\* the clock at a call: no earlier than at the fork before it, and the same
\* millisecond when the calls follow each other at once
LastFork(branches) ==
    LET forked == {i \in 1..Len(branches.branches) : branches.branches[i].id # MainId}
    IN IF forked = {} THEN 0
       ELSE CHOOSE t \in {branches.branches[i].id[2] : i \in forked} :
               \A i \in forked : branches.branches[i].id[2] <= t
TimeArgs(branches) == {LastFork(branches), LastFork(branches) + 1}

\* next((b for b in branches["branches"] if b["id"] == branch_id), None): the
\* index of the first branch with the id, 0 for None
Find(branches, branch_id) ==
    LET found == {i \in 1..Len(branches.branches) : branches.branches[i].id = branch_id}
    IN IF found = {} THEN 0 ELSE CHOOSE i \in found : \A j \in found : i <= j
\* the ids the methods are called with: the ids there are, 'main', and one
\* that names no branch
BranchIdArgs(branches) ==
    {branches.branches[i].id : i \in 1..Len(branches.branches)} \cup {MainId, <<"no-such-branch">>}

Decision(action, branch_id, target_branch) ==
    [action |-> action, branch_id |-> branch_id, target_branch |-> target_branch]
Failure(fn, error) == [fn |-> fn, success |-> FALSE, error |-> error]
\* config["workspace_branches"] = branches
WithBranches(cfg, branches) ==
    [k \in DOMAIN cfg \cup {"workspace_branches"} |->
        IF k = "workspace_branches" THEN branches ELSE cfg[k]]
CanCall == Len(_init_workspace_branches(config).branch_decisions) < MaxDecisions

\* lines 317-318 and 381-382: branch["parent_branch"] or "main", the branch
\* that becomes current when the current branch is merged or abandoned
parent_or_main(branch) ==
    IF branch.parent_branch = NoBranch THEN MainId ELSE branch.parent_branch

\* fork_branch(config, name, framing, rationale), lines 133-207
fork_branch(name, framing, timestamp_ms) ==
    LET branches == _init_workspace_branches(config)
        branch_id == _generate_branch_id(name, timestamp_ms)
        new_branch == [id |-> branch_id, name |-> name,
                       parent_branch |-> branches.current_branch,
                       methodological_framing |-> IF framing = "None" THEN "exploratory"
                                                  ELSE framing,
                       status |-> "active", merge_memo |-> 0]
    IN /\ CanCall
       /\ IF framing # "None" /\ framing \notin valid_framings
          THEN /\ config' = WithBranches(config, branches)
               /\ got' = Failure("fork_branch", "Invalid framing")
          ELSE /\ config' = WithBranches(config,
                      [current_branch |-> branch_id,
                       branches |-> Append(branches.branches, new_branch),
                       branch_decisions |->
                           branches.branch_decisions
                           \o <<Decision("fork", branch_id, branches.current_branch),
                                Decision("switch", branch_id, branches.current_branch)>>])
               /\ got' = [fn |-> "fork_branch", success |-> TRUE, branch_id |-> branch_id,
                          forked_from |-> branches.current_branch]
       /\ UNCHANGED notCheck

\* switch_branch(config, branch_id), lines 210-255
switch_branch(branch_id) ==
    LET branches == _init_workspace_branches(config)
        i == Find(branches, branch_id)
    IN /\ CanCall
       /\ IF i = 0
          THEN /\ config' = WithBranches(config, branches)
               /\ got' = Failure("switch_branch", "not found")
          ELSE IF branches.branches[i].status # "active"
          THEN /\ config' = WithBranches(config, branches)
               /\ got' = Failure("switch_branch", "cannot switch to it")
          ELSE /\ config' = WithBranches(config,
                      [branches EXCEPT
                          !.current_branch = branch_id,
                          !.branch_decisions =
                              Append(@, Decision("switch", branch_id,
                                                 branches.current_branch))])
               /\ got' = [fn |-> "switch_branch", success |-> TRUE,
                          switched_to |-> branch_id,
                          switched_from |-> branches.current_branch]
       /\ UNCHANGED notCheck

\* what merge_branch and abandon_branch do once the branch may be closed,
\* lines 303-318 and 368-382
Closed(branches, i, status, memo, action) ==
    LET branch == branches.branches[i]
    IN [current_branch |-> IF branches.current_branch = branch.id
                           THEN parent_or_main(branch)
                           ELSE branches.current_branch,
        branches |-> [branches.branches EXCEPT ![i].status = status,
                                               ![i].merge_memo = memo],
        branch_decisions |->
            Append(branches.branch_decisions,
                   Decision(action, branch.id,
                            IF action = "merge" THEN parent_or_main(branch) ELSE NoBranch))]

\* merge_branch(config, branch_id, memo), lines 257-326
merge_branch(branch_id, memo) ==
    LET branches == _init_workspace_branches(config)
        i == Find(branches, branch_id)
    IN /\ CanCall
       /\ IF memo < 50
          THEN /\ config' = WithBranches(config, branches)
               /\ got' = Failure("merge_branch", "requires a synthesis memo")
          ELSE IF i = 0
          THEN /\ config' = WithBranches(config, branches)
               /\ got' = Failure("merge_branch", "not found")
          ELSE IF branches.branches[i].status # "active"
          THEN /\ config' = WithBranches(config, branches)
               /\ got' = Failure("merge_branch", "already closed")
          ELSE IF branch_id = MainId
          THEN /\ config' = WithBranches(config, branches)
               /\ got' = Failure("merge_branch", "Cannot merge the main branch")
          ELSE LET after == Closed(branches, i, "merged", memo, "merge")
               IN /\ config' = WithBranches(config, after)
                  /\ got' = [fn |-> "merge_branch", success |-> TRUE,
                             merged_branch |-> branch_id,
                             current_branch |-> after.current_branch]
       /\ UNCHANGED notCheck

\* abandon_branch(config, branch_id, rationale), lines 328-389
abandon_branch(branch_id) ==
    LET branches == _init_workspace_branches(config)
        i == Find(branches, branch_id)
    IN /\ CanCall
       /\ IF i = 0
          THEN /\ config' = WithBranches(config, branches)
               /\ got' = Failure("abandon_branch", "not found")
          ELSE IF branches.branches[i].status # "active"
          THEN /\ config' = WithBranches(config, branches)
               /\ got' = Failure("abandon_branch", "already closed")
          ELSE IF branch_id = MainId
          THEN /\ config' = WithBranches(config, branches)
               /\ got' = Failure("abandon_branch", "Cannot abandon the main branch")
          ELSE LET after == Closed(branches, i, "abandoned",
                                   branches.branches[i].merge_memo, "abandon")
               IN /\ config' = WithBranches(config, after)
                  /\ got' = [fn |-> "abandon_branch", success |-> TRUE,
                             abandoned_branch |-> branch_id,
                             current_branch |-> after.current_branch]
       /\ UNCHANGED notCheck

InitBranch ==
    /\ StoreIdle
    /\ LockIdle
    /\ StrainIdle
    /\ PhaseIdle
    /\ CheckIdle
    /\ BufferIdle
    /\ LogIdle
    /\ SaturationIdle

ForkBranch ==
    \E name \in BranchNameArgs, framing \in FramingArgs,
       timestamp_ms \in TimeArgs(_init_workspace_branches(config)) :
        fork_branch(name, framing, timestamp_ms)
SwitchBranch ==
    \E branch_id \in BranchIdArgs(_init_workspace_branches(config)) :
        switch_branch(branch_id)
MergeBranch ==
    \E branch_id \in BranchIdArgs(_init_workspace_branches(config)), memo \in MemoArgs :
        merge_branch(branch_id, memo)
AbandonBranch ==
    \E branch_id \in BranchIdArgs(_init_workspace_branches(config)) :
        abandon_branch(branch_id)

NextBranch ==
    \/ ForkBranch
    \/ SwitchBranch
    \/ MergeBranch
    \/ AbandonBranch

SpecBranch == InitBranch /\ [][NextBranch]_vars

\* ---------------------------------------------------------------- claims
\* config.json holds one complete document
Intact == Exists(state_file) /\ IsComplete(Content(state_file))
\* what config.json is: its content, or absent
CfgText == IF Exists(state_file) THEN Content(state_file) ELSE <<<<"absent">>>>
\* a successful save() or transition_stage()
Saved(r) == r.kind = "ok" /\ r.op \in {"save", "transition_stage"}
\* the call of p ends in this step
Ends(p) == pc'[p] = "idle" /\ last'[p] # last[p]
\* a load() of p returns or raises in this step, the call of p before it has
\* digest k, and no other process wrote a file since that call started
LoadEndsAfter(p, k) ==
    /\ Ends(p)
    /\ last'[p].op = "load"
    /\ last'[p].kind # "crashed"
    /\ Digest(last[p]) = k
    /\ quiet[p]
    /\ quietPrev[p]
\* a save of p (not load's write of a default) replaces config.json in this step
SaveLands(p) == pc[p] = "s_rename" /\ pc'[p] = "s_stat" /\ ~inload[p]

\* C1: in every interleaving of saves by independent instances, once
\* config.json holds a complete document no step leaves it empty, truncated,
\* partially written or absent.
C1_NeverPartial == [][Intact => Intact']_vars

\* C2: while no other instance writes, no step of _save_internal before the
\* rename, and no stop of the process there, changes config.json; and the
\* load() that follows a save stopped there succeeds and returns the complete
\* document config.json held when that save started.
C2_CrashKeepsDocument ==
    [][\A p \in Procs :
         /\ (/\ pc[p] \in {"s_open", "s_lock", "s_close", "s_rename"}
             /\ pc'[p] \notin {pc[p], "s_stat"}
             /\ quiet[p])
            => CfgText' = CfgText
         /\ LoadEndsAfter(p, "crashed")
            => /\ last'[p].kind = "ok"
               /\ cache'[p] = StoredDoc'
               /\ CfgText' = CfgText
               /\ IsComplete(CfgText')]_vars
\* a load returned the stored document after the save before it stopped with
\* the temporary file written
C2_Witness ==
    \E p \in Procs :
       /\ pc[p] = "idle"
       /\ last[p].op = "load" /\ last[p].kind = "ok" /\ last[p].after = "crashed"
       /\ quiet[p]
       /\ Exists(temp_file)
       /\ cache[p] = StoredDoc

\* C3: load() of a config.json that is a JSON object succeeds, whatever
\* top-level keys the object holds (so that save() can write them back).
C3_UnknownKeyLoads ==
    \A p \in Procs : last[p].read = "dict" => last[p].kind = "ok"

\* C4: a load() that returns while no call of another instance is running
\* (every save has completed) returns the document config.json holds, also
\* when the instance holds a cached copy from an earlier load.
C4_SaveVisible ==
    [][\A p \in Procs :
         (/\ \A q \in Procs \ {p} : pc[q] = "idle"
          /\ pc[p] \in {"idle", "l_read"}
          /\ Ends(p)
          /\ last'[p].op = "load" /\ last'[p].kind = "ok")
         => cache'[p] = StoredDoc']_vars

\* C5: load() on a config.json whose content is no JSON object never raises.
C5_CorruptNeverRaises ==
    \A p \in Procs :
       (last[p].op = "load" /\ last[p].read # "dict")
       => last[p].kind \in {"ok", "crashed"}

\* C6: save(load()) changes nothing in the document but version, which grows
\* by one, and last_updated; and, the document given to save being the stored
\* one and no other instance writing meanwhile, the load() that follows
\* returns the saved document, which is the document config.json holds.
C6_RoundTrip ==
    [][\A p \in Procs :
         /\ (pc[p] = "idle" /\ op'[p] = "save")
            => /\ cache'[p].version = cache[p].version + 1
               /\ \A k \in Fields \ {"version", "last_updated"} :
                     cache'[p][k] = cache[p][k]
         /\ (op[p] = "save" /\ ~(Ends(p) /\ last'[p].kind = "crashed"))
            => cache'[p] = cache[p]
         /\ LoadEndsAfter(p, "save")
            => /\ last'[p].kind = "ok"
               /\ cache'[p] = cache[p]
               /\ cache'[p] = StoredDoc']_vars
\* a load returned the document stored by the save(load()) before it
C6_Witness ==
    \E p \in Procs :
       /\ pc[p] = "idle"
       /\ last[p].op = "load" /\ last[p].kind = "ok" /\ last[p].after = "save"
       /\ quiet[p]
       /\ cache[p] = StoredDoc
       /\ cache[p].version > ProjectState.version

\* C7: the second of two consecutive load() calls of one instance, no other
\* instance having written since the first one started, succeeds, is served
\* from the cache and returns the document the first one returned.
C7_LoadTwice ==
    [][\A p \in Procs :
         LoadEndsAfter(p, "load")
         => /\ last'[p].kind = "ok"
            /\ last'[p].hit
            /\ cache'[p] = cache[p]]_vars
\* a load after a load was served from the cache
C7_Witness ==
    \E p \in Procs :
       /\ pc[p] = "idle"
       /\ last[p].op = "load" /\ last[p].kind = "ok" /\ last[p].after = "load"
       /\ last[p].hit
       /\ quiet[p]
       /\ cache[p] = StoredDoc

\* C8: every save() that replaces config.json stores a version greater than
\* the version config.json held before it, whichever instance saves.
C8_VersionIncreases ==
    [][\A p \in Procs :
         (SaveLands(p) /\ StoredDoc # NoState /\ StoredDoc' # NoState)
         => StoredDoc'.version > StoredDoc.version]_vars

C10_StageOrder ==
    [][(/\ \E p \in Procs : SaveLands(p) /\ op[p] = "transition_stage"
        /\ StoredDoc # NoState
        /\ StoredDoc' # NoState
        /\ StoredDoc'.current_stage # StoredDoc.current_stage)
       => StoredDoc'.current_stage \in valid_transitions(StoredDoc.current_stage)]_vars

\* the stored document is in stage 1 and short of the evidence
ShortOfEvidence ==
    /\ StoredDoc # NoState
    /\ StoredDoc.current_stage = "stage1"
    /\ StoredDoc.documents_manually_coded < EvidenceThreshold

\* C11: no transition_stage('stage2') replaces a stored document that is in
\* stage1 with documents_manually_coded below 10: the call is rejected and the
\* stored stage stays stage1.
C11_EvidenceNeeded ==
    [][\A p \in Procs :
         (SaveLands(p) /\ op[p] = "transition_stage" /\ arg[p] = "stage2"
          /\ ShortOfEvidence)
         => (StoredDoc' # NoState /\ StoredDoc'.current_stage = "stage1")]_vars

\* a transition_stage(a) call of p that did not have to recreate config.json
\* raises ValueError in this step: the call itself, its load() served from the
\* cache, or the step that reads config.json
Rejects(p, a) ==
    /\ Ends(p)
    /\ last'[p].kind = "ValueError"
    /\ pc[p] \in {"idle", "l_read"}
    /\ IF pc[p] = "idle" THEN Call(p, "transition_stage", a) ELSE arg[p] = a
\* the document the load() of that call returns
Loaded(p) == IF pc[p] = "idle" THEN cache[p] ELSE StoredDoc

\* C12: a transition_stage call rejected for an invalid transition and one
\* rejected for insufficient evidence raise different errors, each for its
\* own cause; no step of the rejected call changes config.json, and the
\* instance's cache is left holding the document the call's load() returned
\* (its own cached copy when load served the cache), none of its fields changed.
C12_RejectionsDiffer ==
    [][\A p \in Procs :
         /\ (pc[p] = "idle" /\ pc'[p] = "l_read") => CfgText' = CfgText
         /\ \A a \in NewStages :
               Rejects(p, a)
               => LET s == Loaded(p)
                      invalid == a \notin valid_transitions(s.current_stage)
                      short == /\ a = "stage2"
                               /\ ~s.stage1_complete
                               /\ s.documents_manually_coded < EvidenceThreshold
                  IN /\ CfgText' = CfgText
                     /\ cache'[p] = s
                     /\ invalid \/ short
                     /\ invalid => last'[p].at = "line170"
                     /\ ~invalid => last'[p].at = "line179"
                     /\ invalid => last'[p].at # "line179"]_vars
\* one instance was rejected for an invalid transition, the other for
\* insufficient evidence; config.json is as the project started and both
\* caches hold it
C12_Witness ==
    \E p, q \in Procs :
       /\ pc[p] = "idle" /\ last[p].kind = "ValueError" /\ last[p].at = "line170"
       /\ pc[q] = "idle" /\ last[q].kind = "ValueError" /\ last[q].at = "line179"
       /\ CfgText = EarlyText
       /\ cache[p] = StoredDoc
       /\ cache[q] = StoredDoc

\* C13: in fallback mode (no native locking) two threads of the process that
\* each entered lock_file(exclusive=True) are never both inside the guarded
\* block.
C13_FallbackExcludes ==
    ~HAS_FCNTL
    => \A t, u \in Threads :
          (t # u /\ exclusive[t] /\ exclusive[u])
          => ~(tpc[t] = "block" /\ tpc[u] = "block")

\* C14: once the with-statement of lock_file has ended, the thread holds no
\* lock it acquired there, whether the block returned or raised; an exception
\* raised by the block reaches the caller; and when the acquisition raised, the
\* block did not run and an exception reaches the caller.
C14_ReleasedOnEveryExit ==
    \A t \in Threads :
       (tpc[t] = "out" /\ ended[t] # NoEnd)
       => /\ flock[t] = "none"
          /\ self_lock[t] # "locked"
          /\ ended[t].cause = "BlockError" => ended[t].raised = "BlockError"
          /\ ended[t].cause = "ValueError"
             => (ended[t].raised # "none" /\ ~ended[t].ran)
          /\ ended[t].cause = "none" => (ended[t].raised = "none" /\ ended[t].ran)
\* a block raised under a native exclusive lock, the exception reached the
\* caller, and the other thread is inside its own guarded block with the lock
C14_Witness ==
    \E t, u \in Threads :
       /\ HAS_FCNTL
       /\ tpc[t] = "out" /\ ended[t].cause = "BlockError" /\ ended[t].raised = "BlockError"
       /\ exclusive[t]
       /\ tpc[u] = "block" /\ flock[u] = "LOCK_EX"

\* the parts of the strain tracking data, empty when the config has none
Counts(tr) == IF tr = NoTracking THEN EmptyDict ELSE tr.override_counts
Strained(tr) == IF tr = NoTracking THEN <<>> ELSE tr.strained_rules
Reviews(tr) == IF tr = NoTracking THEN <<>> ELSE tr.strain_reviews
\* the last call was record_override for a rule that had a counter
OverrideOfCounted ==
    /\ called.fn = "record_override"
    /\ called.rule_id \in DOMAIN Counts(before.tracking)

\* C15: a record_override whose phase differs from the phase stored in the
\* rule's counter leaves the count at 1 (reset to 0, then incremented) and the
\* stored phase at the new phase, and reports count 1 and is_strained = false;
\* so after 2 overrides in phase A and 1 in phase B the count is 1, not 3.
C15_PhaseChangeResets ==
    (/\ OverrideOfCounted
     /\ Counts(before.tracking)[called.rule_id].phase_when_overridden # called.arg)
    => LET rc == Counts(tracking)[called.rule_id]
       IN /\ rc.count = 1
          /\ rc.phase_when_overridden = called.arg
          /\ result.override_count = 1
          /\ result.phase = called.arg
          /\ ~result.is_strained
\* 2 overrides in phase A, then 1 override in phase B
C15_Witness ==
    /\ OverrideOfCounted
    /\ Counts(before.tracking)[called.rule_id].count = 2
    /\ Counts(before.tracking)[called.rule_id].phase_when_overridden = "phase1_parallel_streams"
    /\ called.arg = "phase2_synthesis"
    /\ Counts(tracking)[called.rule_id].count = 1
    /\ ~result.is_strained

\* C16: with the default threshold 3, among the record_override calls made in
\* a row for one rule in one phase, no resolution recorded for it in between,
\* exactly the 3rd returns first_time_strained = true.
C16_ThirdOverride ==
    (/\ called.fn = "record_override"
     /\ streak[called.rule_id].clean
     /\ result.threshold = 3)
    => (result.first_time_strained <=> streak[called.rule_id].n = 3)
\* the 4th override in a row in one phase: strained, and not for the first time
C16_Witness ==
    /\ called.fn = "record_override"
    /\ streak[called.rule_id].clean
    /\ streak[called.rule_id].n = 4
    /\ result.override_count = 4
    /\ result.is_strained
    /\ ~result.first_time_strained
    /\ In(called.rule_id, Strained(tracking))

\* C17: whatever calls came before, record_override returns
\* first_time_strained = true exactly when the count after its increment is at
\* or over the threshold and the rule was not in strained_rules before the call.
C17_FirstTimeIffNewlyStrained ==
    called.fn = "record_override"
    => (result.first_time_strained
        <=> (/\ result.override_count >= result.threshold
             /\ ~In(called.rule_id, Strained(before.tracking))))

\* the last call was record_strain_resolution on a config holding strain
\* tracking data
ResolutionRecorded ==
    /\ called.fn = "record_strain_resolution"
    /\ before.tracking # NoTracking

\* C18 as stated: record_strain_resolution appends one review record; with
\* 'phase_transition' the rule's count is 0 and the rule is out of
\* strained_rules; with any other resolution the counts and strained_rules
\* are as they were.
C18_OtherResolutionKeepsStrained ==
    ResolutionRecorded
    => LET r == called.rule_id
       IN /\ Len(Reviews(tracking)) = Len(Reviews(before.tracking)) + 1
          /\ IF called.arg = "phase_transition"
             THEN /\ r \in DOMAIN Counts(tracking) => Counts(tracking)[r].count = 0
                  /\ ~In(r, Strained(tracking))
             ELSE /\ Counts(tracking) = Counts(before.tracking)
                  /\ Strained(tracking) = Strained(before.tracking)

\* C18 amended: on a config holding strain tracking data
\* record_strain_resolution appends one review record (rule, count before,
\* resolution) and removes the rule from strained_rules whatever the
\* resolution; with 'phase_transition' it also sets the rule's count to 0, with
\* any other resolution every count is left as it was; the other rules'
\* counters and flags are untouched.  Without tracking data it reports failure
\* and changes nothing.
C18_ResolutionResolves ==
    /\ (called.fn = "record_strain_resolution" /\ before.tracking = NoTracking)
       => (~result.success /\ tracking = NoTracking)
    /\ ResolutionRecorded
       => LET r == called.rule_id
              b == before.tracking
              Other(x) == x # r
              review == Reviews(tracking)[Len(Reviews(tracking))]
          IN /\ result.success
             /\ Len(Reviews(tracking)) = Len(b.strain_reviews) + 1
             /\ SubSeq(Reviews(tracking), 1, Len(b.strain_reviews)) = b.strain_reviews
             /\ review.rule_id = r /\ review.resolution = called.arg
             /\ review.override_count =
                   (IF r \in DOMAIN b.override_counts THEN b.override_counts[r].count ELSE 0)
             /\ Strained(tracking) = SelectSeq(b.strained_rules, Other)
             /\ DOMAIN Counts(tracking) = DOMAIN b.override_counts
             /\ \A x \in DOMAIN b.override_counts :
                   Counts(tracking)[x] =
                      IF x = r /\ called.arg = "phase_transition"
                      THEN [b.override_counts[x] EXCEPT !.count = 0]
                      ELSE b.override_counts[x]
             /\ rule_overrides = before.rule_overrides
\* a strained rule was resolved with 'adjust_rule': it is out of strained_rules
\* and its count is still at the threshold
C18_Witness ==
    /\ ResolutionRecorded
    /\ called.arg = "adjust_rule"
    /\ In(called.rule_id, Strained(before.tracking))
    /\ ~In(called.rule_id, Strained(tracking))
    /\ Counts(tracking)[called.rule_id].count >= tracking.strain_threshold

\* C19: a call given a rule id that is no configured rule, or a resolution
\* type that is no known type, reports a failure and leaves override counts,
\* strained_rules, strain_reviews and rule_overrides as they were.
C19_UnknownInputsRejected ==
    (/\ called.fn # "-"
     /\ \/ called.rule_id \notin ConfiguredRules
        \/ (called.fn = "record_strain_resolution" /\ called.arg \notin KnownResolutions))
    => /\ "success" \in DOMAIN result
       /\ ~result.success
       /\ tracking = before.tracking
       /\ rule_overrides = before.rule_overrides

\* C20: should_relax returns, without raising, true exactly when both names
\* are in the six-phase list and the current phase stands at or after the
\* phase the rule relaxes at.
C20_RelaxedIffAtOrAfter ==
    returned
    => /\ relaxed.raised = "none"
       /\ relaxed.value
          <=> \E i, j \in 1..6 :
                 /\ phase_order[i] = relaxes_at
                 /\ phase_order[j] = current_phase
                 /\ j >= i
\* the rule relaxes in the very phase it names
C20_Witness ==
    /\ returned
    /\ relaxes_at = "cross_wave_analysis"
    /\ current_phase = "cross_wave_analysis"
    /\ relaxed.value

\* C21: get_current_phase returns one of the six phase identifiers for every
\* input, and 'stage1_foundation' for an input that is missing or empty or
\* whose current_stage is not one that get_current_phase names.
PhaseNames == {phase_order[i] : i \in 1..Len(phase_order)}
RecognizedStages == {"stage1_foundation", "stage2_collaboration", "stage3_synthesis"}
Unrecognized(s) ==
    \/ s = NoStatus
    \/ DOMAIN s = {}
    \/ "current_stage" \notin DOMAIN s
    \/ s.current_stage \notin RecognizedStages
C21_OneOfSixPhases ==
    got.fn = "get_current_phase" =>
        /\ got.value \in PhaseNames
        /\ Unrecognized(got.arg) => got.value = "stage1_foundation"

\* C22 (as stated): check_phase places every enabled isolation rule in exactly
\* one of rules_should_relax and rules_still_active, annotated with its
\* relaxes_at, and a disabled rule in neither; the rule is in
\* rules_should_relax exactly when should_relax(relaxes_at, current_phase).
Design(cfg) == Get(cfg, "research_design", EmptyDict)
Setting(cfg, rule) ==
    Get(Get(Design(cfg), "isolation_config", EmptyDict), rule.key, EmptyDict)
Enabled(cfg, rule) == Get(Setting(cfg, rule), "enabled", TRUE)
HasItems(cfg, rule) == rule.list = "-" \/ Get(Design(cfg), rule.list, <<>>) # <<>>
Entries(l, name) == {i \in 1..Len(l) : l[i].name = name}
\* the rule is in exactly one of the two lists, once, with its relaxes_at, and
\* in rules_should_relax exactly when should_relax holds
PlacedOnce(res, cfg, rule) ==
    LET ra == Get(Setting(cfg, rule), "relaxes_at", rule.default)
        rel == Entries(res.rules_should_relax, rule.name)
        act == Entries(res.rules_still_active, rule.name)
    IN /\ Cardinality(rel) + Cardinality(act) = 1
       /\ \A i \in rel : res.rules_should_relax[i].relaxes_at = ra
       /\ \A i \in act : res.rules_still_active[i].relaxes_at = ra
       /\ rel # {} <=> should_relax(ra, res.current_phase).value
InNeither(res, rule) ==
    /\ Entries(res.rules_should_relax, rule.name) = {}
    /\ Entries(res.rules_still_active, rule.name) = {}
AddReturned(b) == bpc[b] = "idle" /\ bcall[b].fn = "add" /\ bcall[b].status = "returned"
LastCreated == created[Len(created)]
C23_BufferBelowBatchSize ==
    \A b \in Buffers :
        (AddReturned(b) /\ batch_size[b] >= 1) =>
            /\ Len(buffer[b]) < batch_size[b]
            /\ Len(bcall[b].buffer) + 1 >= batch_size[b] =>
                  /\ buffer[b] = <<>>
                  /\ created # <<>>
                  /\ LastCreated.name \in DOMAIN reasoning_dir
                  /\ reasoning_dir[LastCreated.name] = LastCreated.lines
                  /\ Len(LastCreated.lines) = Len(bcall[b].buffer) + 1
                  /\ SubSeq(LastCreated.lines, 1, Len(bcall[b].buffer))
                        = Lines(bcall[b].buffer)
                  /\ loads(LastCreated.lines[Len(LastCreated.lines)]).reasoning
                        = <<b, added[b]>>
\* the third add() on a buffer with batch_size 3 has returned
C23_Witness ==
    /\ AddReturned("b1")
    /\ batch_size["b1"] = 3
    /\ Len(bcall["b1"].buffer) = 2
    /\ buffer["b1"] = <<>>
    /\ Len(created) = 1

\* C24: on one ReasoningBuffer, after any sequence of add() and flush(), every
\* added record is held exactly once, in the buffer or as one line of one batch
\* file, and total_flushed is the number of lines of the batch files; flush()
\* on an empty buffer writes no file and returns None; a flush that fails
\* before its rename keeps the records in the buffer.
Held(b) == buffer[b] \o Scan(reasoning_dir, sorted(BatchFiles(reasoning_dir)))
HeldOnce(b) ==
    LET held == Held(b)
        ids == [k \in 1..Len(held) |-> held[k].reasoning]
    IN /\ Len(held) = added[b]
       /\ total_flushed[b] = Len(held) - Len(buffer[b])
       /\ \A i \in 1..added[b] :
             Cardinality({k \in 1..Len(ids) : ids[k] = <<b, i>>}) = 1
FlushedOnEmpty(b) ==
    /\ bcall[b].fn = "flush"
    /\ bcall[b].status = "returned"
    /\ bcall[b].buffer = <<>>
C24_RecordsHeldOnce ==
    LET b == "b1"
    IN /\ HeldOnce(b)
       /\ FlushedOnEmpty(b) =>
             /\ bcall[b].value = NoValue
             /\ reasoning_dir = bcall[b].dir
       /\ bcall[b].status = "raised" =>
             /\ Len(buffer[b]) >= Len(bcall[b].buffer)
             /\ buffer[b] # <<>>
             /\ SubSeq(buffer[b], 1, Len(bcall[b].buffer)) = bcall[b].buffer
             /\ total_flushed[b] = bcall[b].total_flushed
             /\ \A f \in BatchFiles(bcall[b].dir) :
                   f \in DOMAIN reasoning_dir /\ reasoning_dir[f] = bcall[b].dir[f]
             /\ BatchFiles(reasoning_dir) = BatchFiles(bcall[b].dir)
\* a flush() on an empty buffer has returned, after a batch file was written
\* and a write had failed
C24_Witness ==
    /\ FlushedOnEmpty("b1")
    /\ Len(created) >= 1
    /\ used.failures = 1
    /\ added["b1"] >= 2
\* a flush has failed and the buffer holds its records
C24_WitnessFailed ==
    /\ bcall["b1"].status = "raised"
    /\ Len(buffer["b1"]) >= 2

\* C25: a batch file, once renamed into place, is never modified, replaced or
\* overwritten by a later flush(), of the same ReasoningBuffer or of another
\* one that flushes into the same project directory.
BatchFilesKept ==
    \A f \in BatchFiles(reasoning_dir) :
        f \in DOMAIN reasoning_dir' /\ reasoning_dir'[f] = reasoning_dir[f]
C25_BatchFilesImmutable == [][BatchFilesKept]_vars

\* C26: get_reasoning_for_doc and get_all_reasoning consult the in-memory
\* buffer first and then the batch files in the order in which the files were
\* created.
RECURSIVE CreatedEntries(_)
CreatedEntries(files) ==
    IF files = <<>> THEN <<>>
    ELSE [i \in 1..Len(Head(files).lines) |-> loads(Head(files).lines[i])]
         \o CreatedEntries(Tail(files))
Consulted(b) == bcall[b].buffer \o CreatedEntries(created)
C26_BufferThenCreationOrder ==
    LET b == "b1"
    IN /\ (bcall[b].fn = "get_all_reasoning" /\ bpc[b] = "idle") =>
             bcall[b].value = Consulted(b)
       /\ (bcall[b].fn = "get_reasoning_for_doc" /\ bpc[b] = "idle") =>
             bcall[b].value = FirstFor(Consulted(b), bcall[b].doc_id)

\* C27 (as stated): for every interleaving of log() calls from several
\* processes on one project, conversation-log.jsonl gains exactly one complete
\* line per call and no line it has is changed or removed: the file before a
\* step is a prefix of the file after it.
JsonlText == log_files["jsonl"].text
IsPrefix(s, t) == Len(s) <= Len(t) /\ SubSeq(t, 1, Len(s)) = s
\* the events of the calls whose line has been written
WrittenEvents ==
    {event_with_ts[p] : p \in {q \in Procs : logged[q] > 0 /\ lpc[q].sink # "jsonl"}}
LinesOf(event) == {i \in 1..Len(ReadLines(JsonlText)) : ReadLines(JsonlText)[i] = event}
\* the file consists of complete lines, and when no call is under way it has
\* one line for every call made
OneLinePerCall ==
    /\ Len(JsonlText) = 2 * Len(ReadLines(JsonlText))
    /\ \A i \in 1..Len(JsonlText) : (JsonlText[i] = LF) <=> (i % 2 = 0)
    /\ \A e \in WrittenEvents : Cardinality(LinesOf(e)) = 1
    /\ (\A p \in Procs : At(p, "idle")) => Len(ReadLines(JsonlText)) = Logs
AppendOnly == IsPrefix(JsonlText, JsonlText') /\ OneLinePerCall'
C27_OneLinePerCall == [][AppendOnly]_vars

\* C27 (amended): the same, where native locking is available (fcntl).
C27_OneLinePerCallWithFcntl == [][HAS_FCNTL => AppendOnly]_vars
\* two processes have logged at the same time with fcntl and both calls have
\* returned
C27_Witness ==
    /\ HAS_FCNTL
    /\ \A p \in Procs : logged[p] = 1 /\ At(p, "idle")
    /\ event_with_ts["p1"].timestamp = 0
    /\ ReadLines(JsonlText)[1] = event_with_ts["p2"]

\* C28: get_recent_events(n) returns, for every n >= 0, exactly min(n, total)
\* events: the last ones logged, in the order logged.
C28_MostRecentN ==
    recent.n >= 0 =>
        LET total == Len(recent.events)
            k == IF recent.n < total THEN recent.n ELSE total
        IN recent.value = SubSeq(recent.events, total - k + 1, total)

\* C29: record_document sets stabilized_at_document to the current document the
\* first time the average of new_codes over the last 5 recorded documents (at
\* least 3 recorded) is below 0.5, and no later call changes it; the sequence
\* 3,2,1,0,0,0,0 stabilizes at the 7th document.
Recorded == code_generation.codes_by_document
\* after document i the average over the last five is below 0.5
AverageBelow(i) ==
    LET window == SubSeq(Recorded, IF i > 5 THEN i - 4 ELSE 1, i)
    IN i >= 3 /\ 2 * SumNewCodes(window) < Len(window)
FirstBelow == CHOOSE i \in 1..Len(Recorded) :
                  AverageBelow(i) /\ \A j \in 1..(i - 1) : ~AverageBelow(j)
NewCodesRecorded == [i \in 1..Len(Recorded) |-> Recorded[i].new_codes_created]
C29_StabilizedAtFirstCrossing ==
    /\ code_generation.stabilized_at_document
          = IF \E i \in 1..Len(Recorded) : AverageBelow(i)
            THEN Recorded[FirstBelow].document_id
            ELSE None
    /\ NewCodesRecorded = <<3, 2, 1, 0, 0, 0, 0>> =>
          code_generation.stabilized_at_document = 7
\* the documents 3,2,1,0,0,0,0 have been recorded
C29_Witness ==
    /\ NewCodesRecorded = <<3, 2, 1, 0, 0, 0, 0>>
    /\ sat_result.fn = "record_document"
    /\ sat_result.stabilized_at = 7
\* a project has stabilized at its third document and the average has since
\* been below the threshold again
C29_WitnessLater ==
    /\ Len(Recorded) >= 5
    /\ code_generation.stabilized_at_document = 3
    /\ AverageBelow(Len(Recorded))

\* C30: the refinement signal assess_saturation scores is the number of
\* definition changes recorded within the 5 days before the assessment, capped
\* at 10, whenever the last record_refinement call was made.
ChangesWithin5Days(today) ==
    Cardinality({i \in 1..Len(refinement.definition_changes) :
                    refinement.definition_changes[i].timestamp > today - 5})
C30_RefinementCountedAtAssessment ==
    sat_result.fn = "assess_saturation" =>
        LET counted == ChangesWithin5Days(sat_result.day)
            capped == IF counted < 10 THEN counted ELSE 10
        IN /\ sat_result.value.metrics.recent_refinements = capped
           /\ sat_result.value.evidence.refinement_signal.value = capped

\* ---------------------------------------------------------------------- C31
Tracked == DOMAIN code_coverage.coverage_by_code
PercentOf(c) == code_coverage.coverage_by_code[c].coverage_percent
IsRare(c) == In(c, code_coverage.rare_codes)
IsUniversal(c) == In(c, code_coverage.universal_codes)
Listed == {code_coverage.rare_codes[i] : i \in 1..Len(code_coverage.rare_codes)}
          \cup {code_coverage.universal_codes[i] :
                   i \in 1..Len(code_coverage.universal_codes)}
\* C31: after update_coverage, a code is in rare_codes exactly when its
\* coverage percent is below 10 (100 tenths) and in universal_codes exactly
\* when it is above 80 (800 tenths); only tracked codes are listed, and no code
\* is in both lists.
C31_RareBelow10UniversalAbove80 ==
    sat_result.fn = "update_coverage" =>
        /\ Listed \subseteq Tracked
        /\ \A c \in Tracked :
              /\ IsRare(c) <=> PercentOf(c) < 100
              /\ IsUniversal(c) <=> PercentOf(c) > 800
              /\ ~(IsRare(c) /\ IsUniversal(c))
\* update_coverage has stored 16 of 20 documents as 80.0 percent, not universal,
\* next to a universal code
C31_Witness ==
    /\ sat_result.fn = "update_coverage"
    /\ ~sat_result.raised
    /\ sat_result.total_documents = 20
    /\ Tracked = {"coping", "resilience"}
    /\ code_coverage.coverage_by_code["coping"].document_count = 16
    /\ PercentOf("coping") = 800
    /\ ~IsUniversal("coping")
    /\ IsUniversal("resilience")
\* a code with 5.0 percent is rare, one with 10.0 percent is not
C31_WitnessRare ==
    /\ sat_result.fn = "update_coverage"
    /\ Tracked = {"coping", "resilience"}
    /\ PercentOf("coping") = 50
    /\ IsRare("coping")
    /\ PercentOf("resilience") = 100
    /\ ~IsRare("resilience")

\* ---------------------------------------------------------------------- C32
\* C32: the stored redundancy_score is always within [0, 1] (0..100
\* hundredths); update_redundancy stores an input above 1 as 1, an input below
\* 0 as 0, and any other input as it is.
C32_RedundancyClamped ==
    /\ redundancy.redundancy_score >= 0
    /\ redundancy.redundancy_score <= 100
    /\ sat_result.fn = "update_redundancy" =>
          /\ sat_result.redundancy_score = redundancy.redundancy_score
          /\ sat_result.score > 100 => redundancy.redundancy_score = 100
          /\ sat_result.score < 0 => redundancy.redundancy_score = 0
          /\ sat_result.score \in 0..100 => redundancy.redundancy_score = sat_result.score
\* update_redundancy was called with 1.5 and stored 1.0
C32_Witness ==
    /\ sat_result.fn = "update_redundancy"
    /\ sat_result.score = 150
    /\ redundancy.redundancy_score = 100
\* update_redundancy was called with -0.2 after a higher score and stored 0.0
C32_WitnessBelow ==
    /\ sat_result.fn = "update_redundancy"
    /\ sat_result.score = -20
    /\ redundancy.redundancy_score = 0
    /\ redundancy.last_assessment # None

\* ---------------------------------------------------------------------- C33
Assessed == sat_result.fn = "assess_saturation"
Points(signal) == sat_result.value.evidence[signal].points
ScoreOf == sat_result.value.saturation_score
LevelOf == sat_result.value.saturation_level
\* C33: the score assess_saturation returns is the sum of four sub-scores that
\* are at most 30 (generation), 25 (coverage), 25 (refinement) and 20
\* (redundancy), so it is within 0..100; the level is 'saturated' for a score
\* >= 90, 'high' for 70..89, 'approaching' for 50..69, 'emerging' for 25..49
\* and 'low' below 25.
C33_LevelsOfScore ==
    Assessed =>
        /\ Points("code_generation_signal") \in 0..30
        /\ Points("coverage_signal") \in 0..25
        /\ Points("refinement_signal") \in 0..25
        /\ Points("redundancy_signal") \in 0..20
        /\ ScoreOf = Points("code_generation_signal") + Points("coverage_signal")
                     + Points("refinement_signal") + Points("redundancy_signal")
        /\ ScoreOf \in 0..100
        /\ LevelOf = "saturated" <=> ScoreOf >= 90
        /\ LevelOf = "high" <=> ScoreOf \in 70..89
        /\ LevelOf = "approaching" <=> ScoreOf \in 50..69
        /\ LevelOf = "emerging" <=> ScoreOf \in 25..49
        /\ LevelOf = "low" <=> ScoreOf < 25
        /\ saturation_signals.overall_level = LevelOf
\* an assessment with every sub-score at its maximum
C33_Witness ==
    /\ Assessed
    /\ ScoreOf = 100
    /\ LevelOf = "saturated"
\* an assessment whose score is exactly 70, the lowest 'high'
C33_WitnessHigh ==
    /\ Assessed
    /\ ScoreOf = 70
    /\ LevelOf = "high"
\* an assessment with the level 'low'
C33_WitnessLow ==
    /\ Assessed
    /\ ScoreOf = 5
    /\ LevelOf = "low"
\* a partial coverage sub-score: one of two codes has 20 percent or more
C33_WitnessDeveloping ==
    /\ Assessed
    /\ sat_result.value.evidence.coverage_signal.signal = "DEVELOPING"
    /\ Points("coverage_signal") = 8

\* ---------------------------------------------------------------------- C39
NothingRecorded ==
    /\ code_generation = NewCodeGeneration
    /\ code_coverage.coverage_by_code = EmptyDict
    /\ refinement = NewRefinement
    /\ redundancy = NewRedundancy
\* C39: assess_saturation on a project for which no document, coverage,
\* refinement or redundancy score has been recorded returns the level 'low'.
C39_NothingRecordedIsLow ==
    (Assessed /\ NothingRecorded) => LevelOf = "low"

\* ---------------------------------------------------------------------- C34
\* route(requested_skill) of the router of process p returns in this step:
\* the load() it makes at line 66 returns while no call of another instance
\* is running
RouteReturns(p) ==
    /\ \A q \in Procs \ {p} : pc[q] = "idle"
    /\ pc[p] \in {"idle", "l_read"}
    /\ Ends(p)
    /\ last'[p].op = "load" /\ last'[p].kind = "ok"
\* what it returns
Routed(p, requested_skill) == route(cache'[p].current_stage, requested_skill)
\* C34: route('qual-coding') returns 'route_to_flow' whenever the project's
\* current_stage is stage1 and 'allow' once transition_stage('stage2') has
\* stored stage2 (or a later stage); the public skills are allowed in every
\* stage.
C34_RouteFollowsStage ==
    [][\A p \in Procs :
         (RouteReturns(p) /\ StoredDoc' # NoState)
         => /\ StoredDoc'.current_stage = "stage1"
               => Routed(p, "qual-coding").action = "route_to_flow"
            /\ StoredDoc'.current_stage \in {"stage2", "stage3"}
               => Routed(p, "qual-coding").action = "allow"
            /\ \A s \in PublicSkills : Routed(p, s).action = "allow"]_vars

\* ---------------------------------------------------------------------- C35
\* the overrides recorded so far for a rule in the current phase
Recorded35(r) == streak[r].n
\* C35: an override recorded by one invocation of strain_check is in the
\* document the next invocation's load_config returns, so the count a
\* record-override invocation reports is the number of overrides recorded for
\* the rule; the third invocation for one rule within one phase reports count 3
\* and first_time_strained.
C35_OverridesReachNextInvocation ==
    /\ called.fn = "load_config"
       => \A r \in RuleArgs :
             Recorded35(r) > 0
             => /\ tracking # NoTracking
                /\ r \in DOMAIN tracking.override_counts
                /\ tracking.override_counts[r].count = Recorded35(r)
    /\ called.fn = "save_config"
       => /\ result.override_count = Recorded35(result.rule_id)
          /\ Recorded35(result.rule_id) = DefaultThreshold
             => result.first_time_strained

\* C36: after any sequence of record_override calls (in any phases) and
\* record_strain_resolution calls, a rule is in strained_rules exactly when its
\* current override count is at or over strain_threshold: the strained rules
\* that check_strain derives from the counts are the rules of strained_rules.
C36_StrainedRulesAreTheCounted ==
    {r \in RuleArgs : In(r, Strained(tracking))} = check_strain(tracking)

\* the last call of p was a save (save itself, or the save of transition_stage)
\* that raised OSError when it opened the temporary file
SaveFailed(p) ==
    last[p].kind = "OSError" /\ last[p].op \in {"save", "transition_stage"}
\* C37: the load() that follows a failed save on the same StateManager returns
\* the document config.json holds, without the field changes and the version
\* increment of the failed call.
C37_LoadAfterFailedSaveReturnsStored ==
    [][\A p \in Procs :
          (SaveFailed(p) /\ last'[p].op = "load" /\ last'[p].kind = "ok")
              => cache'[p] = StoredDoc']_vars

\* C38 (as stated): log() writes the structured line before the narrative
\* entry, so at every moment every event rendered in conversation-log.md is
\* also present in conversation-log.jsonl.
MdText == log_files["md"].text
\* the narrative entry at position i renders an event that has a line in
\* conversation-log.jsonl
HasLine(i) ==
    \E j \in 1..Len(ReadLines(JsonlText)) :
        MdEntry(ReadLines(JsonlText)[j])[1] = MdText[i]
RenderedAreLogged == \A i \in 1..Len(MdText) : MdText[i] # LF => HasLine(i)
C38_RenderedAreLogged == RenderedAreLogged

\* C38 (amended): the same, where native locking is available (fcntl).
C38_RenderedAreLoggedWithFcntl == HAS_FCNTL => RenderedAreLogged
\* with fcntl, the entry of one call is in conversation-log.md while another
\* call stands between its two writes: its line is written, its entry is not
C38_Witness ==
    /\ HAS_FCNTL
    /\ \E i \in 1..Len(MdText) : MdText[i] # LF
    /\ \E p \in Procs : lpc[p] = [step |-> "open", sink |-> "md"]
\* with fcntl, two calls have returned: both events are in both files
C38_WitnessBoth ==
    /\ HAS_FCNTL
    /\ \A p \in Procs : logged[p] = 1 /\ At(p, "idle")
    /\ Len(MdText) = 6

\* C40: after any sequence of fork_branch, switch_branch, merge_branch and
\* abandon_branch calls, current_branch names an existing branch whose status
\* is 'active', and the branch 'main' is never merged or abandoned.
WorkspaceBranches == config.workspace_branches
HasBranches == "workspace_branches" \in DOMAIN config
StatusOf(branch_id) ==
    {WorkspaceBranches.branches[i].status :
        i \in {j \in 1..Len(WorkspaceBranches.branches) :
                  WorkspaceBranches.branches[j].id = branch_id}}
CurrentIsActive == HasBranches => "active" \in StatusOf(WorkspaceBranches.current_branch)
MainStaysActive == HasBranches => StatusOf(MainId) = {"active"}
C40_CurrentIsActiveMainStays == CurrentIsActive /\ MainStaysActive
====
